---- MODULE Spec2Model ----
(***************************************************************************)
(* Model of the command-execution core of the Cisco switch manager         *)
(* (src/Swapp/swappLast): the TTL+LRU cache (cache_manager.py), the        *)
(* command executor and the bulk port operations with their range          *)
(* compressor (cisco_manager.py), the text parsers (cisco_parsers.py) and   *)
(* the retry decorator (cisco_decorators.py).                              *)
(*                                                                         *)
(* Eleven specifications share the module's variables, each driving one       *)
(* component and leaving the others' variables alone:                      *)
(*   SpecCache  one ThreadSafeCache instance under get/set/invalidate/     *)
(*              clear/sweep and a discrete clock;                          *)
(*   SpecLru    a ThreadSafeCache of capacity 2 over three keys;           *)
(*   SpecExec   two caller threads of one CiscoManager (send_command,      *)
(*              connect, disconnect);                                      *)
(*   SpecBulk   one bulk_enable/bulk_disable call, batch by batch, against *)
(*              a session that may raise on any channel call;              *)
(*   SpecRange  _create_port_ranges on ascending lists of port numbers;    *)
(*   SpecQuery  get_interfaces_status calls one after the other, each      *)
(*              strategy by strategy, against a device whose answers are   *)
(*              drawn at Init;                                             *)
(*   SpecPort   one enable_interface/disable_interface call;               *)
(*   SpecParse  the three interface parsers on a status table and a raw    *)
(*              interface line drawn at Init;                              *)
(*   SpecLock   two threads inside the methods of one ThreadSafeCache,     *)
(*              statement by statement around "with self.lock";            *)
(*   SpecSweep  the four caches of the CacheManager under set() traffic,   *)
(*              with the cleanup thread running under weak fairness;       *)
(*   SpecRetry  one call of a function wrapped by retry_on_failure.        *)
(***************************************************************************)
EXTENDS Integers, Sequences, FiniteSets, TLC

VARIABLES
    \* ---- ThreadSafeCache instance ----
    cache,        \* OrderedDict: sequence of CacheEntry records, oldest first
    cstats,       \* self.stats: hits, misses, evictions, compressions, total_requests
    now,          \* time.time(), in whole ticks
    ret,          \* what the last cache operation returned to its caller
    lastSet,      \* history: per key, the last set() not yet invalidated/evicted/cleared
    accessLog,    \* history: keys in order of their last access (successful get, or set)
    nops,         \* history: number of cache operations performed
    max_size,     \* self.max_size of the instance
    \* ---- CiscoManager shared by caller threads ----
    connection,   \* self.connection: "None" or "handle"
    connected,    \* self.connected
    tested,       \* history: the session self.connection refers to has passed
                  \* the connection test of the connect() that opened it
    lockOwner,    \* owner of self.connection_lock ("none" when free)
    pc,           \* per thread: position inside the method it is running
    call,         \* per thread: arguments of the running send_command
    inflight,     \* threads that have a command on the channel right now
    mstats,       \* self.stats (PerformanceStats)
    chanSends,    \* history: per command, channel sends made for it
    cachedDone,   \* history: per command, use_cache=True calls that returned normally
    outcome,      \* per thread: how its last call ended
    scCalls,      \* history: send_command calls entered
    scErrors,     \* history: send_command calls that ended by raising
    connectCalls, \* history: connect() calls entered
    \* ---- one bulk call and the device session it talks to ----
    bIn,          \* interfaces_to_enable / interfaces_to_disable
    bSize,        \* max_batch_size
    bPc,          \* position inside the bulk method / _send_config_command_safe
    bIdx,         \* index of the batch being processed (1-based)
    results,      \* the results dict: port -> BOOLEAN, for the ports entered so far
    mode,         \* device session: "exec" (top-level prompt), "config", "closed"
    chanOps,      \* history: number of channel operations made by the call
    batchLog,     \* history: per processed batch, "ok" / "fail" / "skipped"
    cmdIdx,       \* manual fallback: index of the next command to send
    raisedInConfig, \* history: a channel call of the running transaction raised
    delivered,    \* history: per command of the running transaction, the times
                  \* the device accepted it
                  \* while the session was in configuration mode
    pOp,          \* the single-port method running: "none", "enable", "disable"
    pRet,         \* what it returned: "none" while running, "True", "False"
    \* ---- range compressor ----
    rIn,          \* ports (ascending, distinct) handed to _create_port_ranges
    rPrefix,      \* slot_prefix
    rOut,         \* the returned list of range strings
    rPc,          \* "ready" before the call, "done" after
    \* ---- one get_interfaces_status call ----
    qDev,         \* per method: what the device answers to its command
    qLong,        \* whether the answer to method 1 is longer than 100 characters
    qStep,        \* the method about to run (NumStrategies + 1 after the last)
    qDone,        \* the call has returned
    qRet,         \* the returned map: who produced it, how many records, their type
    qSent,        \* history: methods whose command was sent on the channel
    qLog,         \* history: per method run, whether it raised and its record count
    qUseCache,    \* the use_cache argument of the running get_interfaces_status call
    qCalls,       \* history: get_interfaces_status calls begun
    qPrev,        \* history: what the previous get_interfaces_status call returned
    \* ---- the output parsers on the text a device prints ----
    pHdr,         \* the header line of the status table
    pRows,        \* the rows of the table, each a sequence of columns
    pPad,         \* the blanks between two columns
    pStale,       \* whether a stale row precedes the header
    pRaw,         \* one interface line of "show interfaces"
    pOutT,        \* parse_interface_status_enhanced of the table
    pOutF,        \* parse_interface_status_fast of the rows without header
    pOutB,        \* parse_basic_interfaces of the raw line
    pPc,          \* "ready", "table", "rows", "done"
    \* ---- caller threads inside the methods of one ThreadSafeCache ----
    lkOwner,      \* owner of self.lock ("none" when free)
    lkPc,         \* per thread: position inside the cache method it is running
    lkArg,        \* per thread: the key and value of its running set()
    lkTmp,        \* per thread: the value of stats['compressions'] it has read
    lkSets,       \* history: set() calls whose value was compressed
    lkBare,       \* history: shared state was written by a thread not holding the lock
    \* ---- CacheManager: its four caches and its cleanup thread ----
    manager,      \* per cache of the manager: its entries and its stats
    swPc,         \* _cleanup_worker: 0 in time.sleep, i before the i-th cleanup_expired
    swSets,       \* history: set() calls made on the manager's caches
    swRemoved,    \* history: entries removed by the cleanup thread
    \* ---- one call of a function wrapped by retry_on_failure ----
    rtMax,        \* max_attempts
    rtPc,         \* "ready", "loop" (inside the for loop) or "done"
    rtAttempt,    \* the loop variable attempt
    rtLast,       \* last_exception ("None" until an invocation raises)
    rtLog,        \* history: what each invocation of the function did
    rtOut         \* what the wrapper did: returned a value or raised

cacheVars == <<cache, cstats, now, ret, lastSet, accessLog, nops, max_size>>
execVars  == <<connection, connected, tested, lockOwner, pc, call, inflight, mstats,
               chanSends, cachedDone, outcome, scCalls, scErrors, connectCalls>>
bulkVars  == <<bIn, bSize, bPc, bIdx, results, mode, chanOps, batchLog, cmdIdx,
               raisedInConfig, delivered, pOp, pRet>>
rangeVars == <<rIn, rPrefix, rOut, rPc>>
queryVars == <<qDev, qLong, qStep, qDone, qRet, qSent, qLog, qUseCache, qCalls, qPrev>>
parseVars == <<pHdr, pRows, pPad, pStale, pRaw, pOutT, pOutF, pOutB, pPc>>
lockVars == <<lkOwner, lkPc, lkArg, lkTmp, lkSets, lkBare>>
sweepVars == <<manager, swPc, swSets, swRemoved>>
retryVars == <<rtMax, rtPc, rtAttempt, rtLast, rtLog, rtOut>>
vars == <<cacheVars, execVars, bulkVars, rangeVars, queryVars, parseVars, lockVars,
          sweepVars, retryVars>>

(***************************************************************************)
(* Bounds of the model                                                     *)
(***************************************************************************)
MaxTime == 3      \* the clock stops ticking here
MaxOps  == 3      \* cache operations per behaviour of SpecCache
MaxLruOps == 4    \* cache operations per behaviour of SpecLru
MaxSweepSets == 2 \* set() calls per behaviour of SpecSweep
MaxAttempts == 3  \* largest max_attempts given to retry_on_failure
MaxQueries == 2   \* get_interfaces_status calls per behaviour of SpecQuery

(***************************************************************************)
(* Sequence helpers                                                        *)
(***************************************************************************)
Range(s) == {s[i] : i \in 1..Len(s)}

RemoveAt(s, i) == SubSeq(s, 1, i - 1) \o SubSeq(s, i + 1, Len(s))

Without(s, x) == SelectSeq(s, LAMBDA y : y # x)

PosIn(s, x) == IF \E i \in 1..Len(s) : s[i] = x
               THEN CHOOSE i \in 1..Len(s) : s[i] = x
               ELSE 0

(***************************************************************************)
(* cache_manager.py: CacheEntry and ThreadSafeCache                        *)
(***************************************************************************)
\* Cache keys, as _generate_key digests them (the digest is taken injective).
Keys == {"ka", "kb", "kc"}

\* The keys the callers of SpecCache use
FewKeys == {"ka", "kb"}

\* max_size of the instances of SpecCache
Capacities == {1, 2}

\* Values handed to set(): two that pickle and unpickle, one whose pickle
\* cannot be loaded again, one that cannot be pickled at all.
Values == {"v1", "v2", "poison", "nopickle"}

\* Values whose pickle raises when it is loaded
Undecodable == {"poison"}

\* Values whose serialized form is longer than compress_threshold and shrinks
\* by 10% or more under zlib.
Compressible == {"v2"}

\* ttl arguments of set(): 0 stands for None/0, both replaced by default_ttl.
TtlArgs == {0, 1}

DefaultTtl == 2     \* self.default_ttl, in ticks

Absent == "ABSENT"       \* the default returned by get()
Null == "NULL"

ZeroStats == [hits |-> 0, misses |-> 0, evictions |-> 0,
              compressions |-> 0, total_requests |-> 0]

CacheKeys(c) == {c[i].key : i \in 1..Len(c)}

KeyIndex(c, k) == IF \E i \in 1..Len(c) : c[i].key = k
                  THEN CHOOSE i \in 1..Len(c) : c[i].key = k
                  ELSE 0

\* CacheEntry.is_expired
IsExpiredAtTtl(e, t) == t - e.timestamp >= e.ttl   \* variant: >= for >
IsExpired(e, t) == t - e.timestamp > e.ttl

\* pickle.dumps / zlib.compress: the payload is the value under a tag
Pickle(v) == <<"pkl", v>>
Zlib(p) == <<"z", p>>

\* ThreadSafeCache._compress_data: (data, compressed); "RAISE" when the
\* value cannot be pickled (the except branch pickles again and raises)
CompressData(v) ==
    IF v = "nopickle" THEN [raised |-> TRUE, data |-> <<>>, compressed |-> FALSE]
    ELSE IF v \in Compressible
    THEN [raised |-> FALSE, data |-> Zlib(Pickle(v)), compressed |-> TRUE]
    ELSE [raised |-> FALSE, data |-> Pickle(v), compressed |-> FALSE]

\* ThreadSafeCache._decompress_data: the value, or "RAISE"
DecompressData(data, compressed) ==
    LET p == IF compressed
             THEN (IF data[1] = "z" THEN data[2] ELSE <<"bad">>)
             ELSE data
    IN  IF p[1] = "pkl" /\ p[2] \notin Undecodable THEN p[2] ELSE "RAISE"

\* ThreadSafeCache.get: the cache, the stats and the value returned
\* variant: the hit is counted but move_to_end is left out
GetNoMove(c, i) == [c EXCEPT ![i].access_count = @ + 1]
\* the hit branch: move_to_end(key); entry.access_count += 1
GetTouch(c, i) == RemoveAt(c, i) \o <<[c[i] EXCEPT !.access_count = @ + 1]>>

\* variant: the undecodable entry is left in the cache
KeepCorrupt(c, k) == c
\* the except branch of get: del self.cache[key]
PurgeCorrupt(c, k) == SelectSeq(c, LAMBDA e : e.key # k)

\* variant: the expired entry is left in the cache
KeepExpired(c, i) == c
\* the expired branch of get: del self.cache[key]
DropExpired(c, i) == RemoveAt(c, i)

CacheGet(c, st, k, t) ==
    LET st1 == [st EXCEPT !.total_requests = @ + 1]
        i   == KeyIndex(c, k)
    IN  IF i = 0
        THEN [cache |-> c, stats |-> [st1 EXCEPT !.misses = @ + 1], val |-> Absent]
        ELSE IF IsExpired(c[i], t)
        THEN [cache |-> DropExpired(c, i),
              stats |-> [st1 EXCEPT !.misses = @ + 1], val |-> Absent]
        ELSE LET c2  == GetTouch(c, i)
                 st2 == [st1 EXCEPT !.hits = @ + 1]
                 v   == DecompressData(c[i].data, c[i].compressed)
             IN  IF v = "RAISE"
                 THEN [cache |-> PurgeCorrupt(c2, k),
                       stats |-> [st2 EXCEPT !.misses = @ + 1], val |-> Absent]
                 ELSE [cache |-> c2, stats |-> st2, val |-> v]

\* variant: the oldest entries are dropped without being counted
EvictUncounted(c, n) ==
    [cache |-> IF Len(c) > max_size
               THEN SubSeq(c, Len(c) - max_size + 1, Len(c)) ELSE c,
     evicted |-> n]
\* ThreadSafeCache.set: the eviction loop
RECURSIVE Evict(_, _)
Evict(c, n) == IF Len(c) > max_size THEN Evict(Tail(c), n + 1)
               ELSE [cache |-> c, evicted |-> n]

\* ThreadSafeCache.set: the cache and the stats afterwards
CacheSet(c, st, k, v, ttlArg, t) ==
    LET ttl == IF ttlArg = 0 THEN DefaultTtl ELSE ttlArg
        cd  == CompressData(v)
    IN  IF cd.raised THEN [cache |-> c, stats |-> st, evicted |-> <<>>]
        ELSE
        LET st1 == IF cd.compressed THEN [st EXCEPT !.compressions = @ + 1] ELSE st
            c1  == SelectSeq(c, LAMBDA e : e.key # k)
            e   == [key |-> k, data |-> cd.data, timestamp |-> t, ttl |-> ttl,
                    access_count |-> 0, compressed |-> cd.compressed]
            c2  == Append(c1, e)
            ev  == Evict(c2, 0)
        IN  [cache |-> ev.cache,
             stats |-> [st1 EXCEPT !.evictions = @ + ev.evicted],
             evicted |-> SelectSeq(c2, LAMBDA x : x.key \notin CacheKeys(ev.cache))]

\* variant: an entry is dropped as soon as its age reaches its ttl
CleanupExpiredAtTtl(c, t) == SelectSeq(c, LAMBDA e : ~(t - e.timestamp >= e.ttl))

\* ThreadSafeCache.cleanup_expired: the entries kept
CleanupExpired(c, t) == SelectSeq(c, LAMBDA e : ~(t - e.timestamp > e.ttl))

(***************************************************************************)
(* Cache operations as actions                                             *)
(***************************************************************************)
NoSet == [live |-> FALSE, val |-> Null, at |-> 0, ttlArg |-> 0]

Touch(log, k) == Append(Without(log, k), k)

Get(k) ==
    /\ LET r == CacheGet(cache, cstats, k, now)
       IN  /\ cache' = r.cache
           /\ cstats' = r.stats
           /\ ret' = [op |-> "get", key |-> k, val |-> r.val, evicted |-> <<>>, at |-> now]
           /\ accessLog' = IF r.val # Absent THEN Touch(accessLog, k) ELSE accessLog
    /\ nops' = nops + 1
    /\ UNCHANGED <<now, lastSet, max_size, execVars, bulkVars, rangeVars, queryVars, parseVars, lockVars, sweepVars, retryVars>>

Set(k, v, ttlArg) ==
    /\ LET r == CacheSet(cache, cstats, k, v, ttlArg, now)
           stored == v # "nopickle"
           gone == {r.evicted[i].key : i \in 1..Len(r.evicted)}
       IN  /\ cache' = r.cache
           /\ cstats' = r.stats
           /\ ret' = [op |-> "set", key |-> k, val |-> Absent, evicted |-> r.evicted,
                      at |-> now]
           /\ lastSet' = [x \in Keys |->
                            IF x \in gone THEN NoSet
                            ELSE IF x = k /\ stored
                                 THEN [live |-> TRUE, val |-> v, at |-> now,
                                       ttlArg |-> ttlArg]
                            ELSE lastSet[x]]
           /\ accessLog' = IF stored THEN Touch(accessLog, k) ELSE accessLog
    /\ nops' = nops + 1
    /\ UNCHANGED <<now, max_size, execVars, bulkVars, rangeVars, queryVars, parseVars, lockVars, sweepVars, retryVars>>

Invalidate(k) ==
    /\ cache' = SelectSeq(cache, LAMBDA e : e.key # k)
    /\ ret' = [op |-> "invalidate", key |-> k,
               val |-> IF k \in CacheKeys(cache) THEN "True" ELSE "False",
               evicted |-> <<>>, at |-> now]
    /\ lastSet' = [lastSet EXCEPT ![k] = NoSet]
    /\ nops' = nops + 1
    /\ UNCHANGED <<cstats, now, accessLog, max_size, execVars, bulkVars, rangeVars, queryVars, parseVars, lockVars, sweepVars, retryVars>>

Clear ==
    /\ cache' = <<>>
    /\ cstats' = ZeroStats
    /\ ret' = [op |-> "clear", key |-> Null, val |-> Absent, evicted |-> <<>>, at |-> now]
    /\ lastSet' = [x \in Keys |-> NoSet]
    /\ nops' = nops + 1
    /\ UNCHANGED <<now, accessLog, max_size, execVars, bulkVars, rangeVars, queryVars, parseVars, lockVars, sweepVars, retryVars>>

\* One pass of CacheManager._cleanup_worker over this cache
Sweep ==
    /\ cache' = CleanupExpired(cache, now)
    /\ ret' = [op |-> "sweep", key |-> Null, val |-> Absent, evicted |-> <<>>, at |-> now]
    /\ nops' = nops + 1
    /\ UNCHANGED <<cstats, now, lastSet, accessLog, max_size,
                   execVars, bulkVars, rangeVars, queryVars, parseVars, lockVars, sweepVars, retryVars>>

Tick ==
    /\ now < MaxTime
    /\ now' = now + 1
    /\ UNCHANGED <<cache, cstats, ret, lastSet, accessLog, nops, max_size,
                   execVars, bulkVars, rangeVars, queryVars, parseVars, lockVars, sweepVars, retryVars>>

CacheInit ==
    /\ cache = <<>>
    /\ cstats = ZeroStats
    /\ now = 0
    /\ ret = [op |-> "none", key |-> Null, val |-> Absent, evicted |-> <<>>, at |-> 0]
    /\ lastSet = [x \in Keys |-> NoSet]
    /\ accessLog = <<>>
    /\ nops = 0
    /\ max_size \in Capacities

(***************************************************************************)
(* cisco_manager.py: CiscoManager.send_command, connect, disconnect        *)
(***************************************************************************)
Threads == {"t1", "t2"}

Cmds == {"show clock"}

\* delay_factor arguments of send_command
DelayFactors == {1, 2}

\* self.connection.host of the one device the manager talks to
Host == "sw1"

\* send_command, line 201: the tuple handed to command_cache.get and .set
CacheKey(host, command, delay_factor) == <<host, command>>

MaxCalls == 2       \* send_command calls, refused ones included
MaxConnects == 2    \* connect() calls

\* The names bound at module level in cache_manager.py.  cisco_manager.py does
\* "import cache_manager" and then reads cache_manager.command_cache, an
\* attribute of the module object.
CacheModuleNames == {"time", "threading", "hashlib", "pickle", "zlib", "Dict",
                     "Any", "Optional", "Callable", "Tuple", "dataclass",
                     "OrderedDict", "logging", "logger", "CacheEntry",
                     "ThreadSafeCache", "CacheManager", "cache_manager"}

\* Attributes of the CacheManager instance (the object named cache_manager
\* inside the module).
CacheManagerAttrs == {"interface_cache", "device_cache", "command_cache",
                      "mac_cache", "cleanup_thread"}

\* variant: the name cache_manager is bound to the CacheManager instance
CommandCacheBound == "command_cache" \in CacheManagerAttrs

\* Whether the expression cache_manager.command_cache evaluates (otherwise it
\* raises AttributeError)
CommandCacheResolves == "command_cache" \in CacheModuleNames

ZeroMStats == [commands_executed |-> 0, cache_hits |-> 0, cache_misses |-> 0,
               connection_attempts |-> 0, successful_connections |-> 0,
               errors |-> 0]

\* cache_key before line 201 has assigned it
NoKey == <<>>

\* drains counts the clear_buffer calls this send_command call has made on the
\* channel; fresh says that no exchange has ended on the channel since the
\* last of them; sentFresh is fresh as it was when line 218 wrote the command.
\* The three are locals of one call and are cleared when it returns.
NoCall == [cmd |-> Null, delay_factor |-> 0, use_cache |-> FALSE,
           cache_key |-> NoKey, seenDone |-> 0, output |-> Null,
           drains |-> 0, fresh |-> FALSE, sentFresh |-> FALSE]

\* variant: the connected test is made only after the cache lookup
SendCommandCallCacheFirst(t, c, df, uc) ==
    /\ pc[t] = "idle"
    /\ scCalls < MaxCalls
    /\ scCalls' = scCalls + 1
    /\ IF ~connected /\ ~uc
       THEN /\ outcome' = [outcome EXCEPT ![t] = "CiscoCommandError"]
            /\ scErrors' = scErrors + 1
            /\ UNCHANGED <<pc, call>>
       ELSE /\ pc' = [pc EXCEPT ![t] = IF uc THEN "sc_cache" ELSE "sc_clean"]
            /\ call' = [call EXCEPT ![t] = [cmd |-> c, delay_factor |-> df,
                                            use_cache |-> uc, cache_key |-> NoKey,
                                            seenDone |-> cachedDone[c],
                                            output |-> Null, drains |-> 0,
                                            fresh |-> FALSE,
                                            sentFresh |-> FALSE]]
            /\ outcome' = [outcome EXCEPT ![t] = "running"]
            /\ UNCHANGED scErrors
    /\ UNCHANGED <<connection, connected, tested, lockOwner, inflight, mstats,
                   chanSends, cachedDone, connectCalls,
                   cacheVars, bulkVars, rangeVars, queryVars, parseVars, lockVars, sweepVars, retryVars>>

\* send_command, line 195: the connected test
SendCommandCall(t, c, df, uc) ==
    /\ pc[t] = "idle"
    /\ scCalls < MaxCalls
    /\ scCalls' = scCalls + 1
    /\ IF ~connected
       THEN /\ outcome' = [outcome EXCEPT ![t] = "CiscoCommandError"]
            /\ scErrors' = scErrors + 1
            /\ UNCHANGED <<pc, call>>
       ELSE /\ pc' = [pc EXCEPT ![t] = IF uc THEN "sc_cache" ELSE "sc_clean"]
            /\ call' = [call EXCEPT ![t] = [cmd |-> c, delay_factor |-> df,
                                            use_cache |-> uc, cache_key |-> NoKey,
                                            seenDone |-> cachedDone[c],
                                            output |-> Null, drains |-> 0,
                                            fresh |-> FALSE,
                                            sentFresh |-> FALSE]]
            /\ outcome' = [outcome EXCEPT ![t] = "running"]
            /\ UNCHANGED scErrors
    /\ UNCHANGED <<connection, connected, tested, lockOwner, inflight, mstats,
                   chanSends, cachedDone, connectCalls,
                   cacheVars, bulkVars, rangeVars, queryVars, parseVars, lockVars, sweepVars, retryVars>>

\* send_command, lines 199-209: the cache lookup
SendCommandCacheCheck(t) ==
    /\ pc[t] = "sc_cache"
    /\ call' = IF connection = "None" THEN call
                ELSE [call EXCEPT ![t].cache_key =
                        CacheKey(Host, call[t].cmd, call[t].delay_factor)]
    /\ IF connection = "None" \/ ~CommandCacheResolves
       THEN \* AttributeError, caught: counted as a miss
            /\ mstats' = [mstats EXCEPT !.cache_misses = @ + 1]
            /\ pc' = [pc EXCEPT ![t] = "sc_clean"]
            /\ UNCHANGED <<cache, cstats, outcome, cachedDone>>
       ELSE LET r == CacheGet(cache, cstats, call'[t].cache_key, now)
            IN  /\ cache' = r.cache
                /\ cstats' = r.stats
                /\ IF r.val # Absent
                   THEN /\ mstats' = [mstats EXCEPT !.cache_hits = @ + 1]
                        /\ pc' = [pc EXCEPT ![t] = "idle"]
                        /\ outcome' = [outcome EXCEPT ![t] = "cached"]
                        /\ cachedDone' = [cachedDone EXCEPT ![call[t].cmd] = @ + 1]
                   ELSE /\ mstats' = [mstats EXCEPT !.cache_misses = @ + 1]
                        /\ pc' = [pc EXCEPT ![t] = "sc_clean"]
                        /\ UNCHANGED <<outcome, cachedDone>>
    /\ UNCHANGED <<connection, connected, tested, lockOwner, inflight, chanSends,
                   scCalls, scErrors, connectCalls,
                   now, ret, lastSet, accessLog, nops, max_size, bulkVars, rangeVars, queryVars, parseVars, lockVars, sweepVars, retryVars>>

\* send_command, lines 212-215: count the command, then _clean_buffer_and_wait
\* (clear_buffer, an empty send_command, clear_buffer; its exceptions are
\* swallowed, and it does nothing when self.connection is None)
SendCommandClean(t) ==
    /\ pc[t] = "sc_clean"
    /\ mstats' = [mstats EXCEPT !.commands_executed = @ + 1]
    /\ IF connection = "None"
       THEN /\ pc' = [pc EXCEPT ![t] = "sc_send"]
            /\ UNCHANGED inflight
       ELSE /\ pc' = [pc EXCEPT ![t] = "sc_cleaning"]
            /\ inflight' = inflight \cup {t}
    /\ UNCHANGED <<connection, connected, tested, lockOwner, call, chanSends,
                   cachedDone, outcome, scCalls, scErrors, connectCalls,
                   cacheVars, bulkVars, rangeVars, queryVars, parseVars, lockVars, sweepVars, retryVars>>

\* _clean_buffer_and_wait, lines 184-188: clear_buffer, the empty command,
\* clear_buffer
SendCommandCleaned(t) ==
    /\ pc[t] = "sc_cleaning"
    /\ inflight' = inflight \ {t}
    /\ pc' = [pc EXCEPT ![t] = "sc_send"]
    /\ call' = [call EXCEPT ![t].drains = 2, ![t].fresh = TRUE]
    /\ UNCHANGED <<connection, connected, tested, lockOwner, mstats, chanSends,
                   cachedDone, outcome, scCalls, scErrors, connectCalls,
                   cacheVars, bulkVars, rangeVars, queryVars, parseVars, lockVars, sweepVars, retryVars>>

\* send_command, line 218: self.connection.send_command(command, ...) is
\* written to the channel
SendCommandSend(t) ==
    /\ pc[t] = "sc_send"
    /\ IF connection = "None"
       THEN \* AttributeError on None, caught at line 258
            /\ mstats' = [mstats EXCEPT !.errors = @ + 1]
            /\ outcome' = [outcome EXCEPT ![t] = "CiscoCommandError"]
            /\ pc' = [pc EXCEPT ![t] = "idle"]
            /\ scErrors' = scErrors + 1
            /\ UNCHANGED <<inflight, chanSends>>
       ELSE /\ inflight' = inflight \cup {t}
            /\ chanSends' = [chanSends EXCEPT ![call[t].cmd] = @ + 1]
            /\ pc' = [pc EXCEPT ![t] = "sc_wait"]
            /\ UNCHANGED <<mstats, outcome, scErrors>>
    /\ call' = IF connection = "None"
                THEN [call EXCEPT ![t].drains = 0, ![t].fresh = FALSE]
                ELSE [call EXCEPT ![t].sentFresh = call[t].fresh]
    /\ UNCHANGED <<connection, connected, tested, lockOwner, cachedDone,
                   scCalls, connectCalls, cacheVars, bulkVars, rangeVars, queryVars, parseVars, lockVars, sweepVars, retryVars>>

\* What the channel answers: text, text with prompt residue around it,
\* nothing, or an exception
Replies == {"text", "prompted", "empty", "raise"}
\* The answers with output in them ("if use_cache and output")
WithOutput == {"text", "prompted"}

\* send_command, lines 218-260: the channel answers with text, with nothing,
\* or raises; then clear_buffer, the cache store and the cleaning of the text
SendCommandReply(t, reply) ==
    /\ pc[t] = "sc_wait"
    /\ inflight' = inflight \ {t}
    /\ pc' = [pc EXCEPT ![t] = "idle"]
    /\ call' = [u \in Threads |->
                  IF u = t THEN [call[u] EXCEPT !.output = reply, !.drains = 0,
                                                !.fresh = FALSE,
                                                !.sentFresh = FALSE]
                  ELSE [call[u] EXCEPT !.fresh = FALSE]]
    /\ IF reply = "raise"
       THEN /\ mstats' = [mstats EXCEPT !.errors = @ + 1]
            /\ outcome' = [outcome EXCEPT ![t] = "CiscoCommandError"]
            /\ scErrors' = scErrors + 1
            /\ UNCHANGED <<cache, cstats, cachedDone>>
       ELSE /\ outcome' = [outcome EXCEPT ![t] = "returned"]
            /\ UNCHANGED scErrors
            /\ cachedDone' = IF call[t].use_cache /\ reply \in WithOutput
                             THEN [cachedDone EXCEPT ![call[t].cmd] = @ + 1]
                             ELSE cachedDone
            /\ IF call[t].use_cache /\ reply \in WithOutput /\ CommandCacheResolves
               THEN LET r == CacheSet(cache, cstats, call[t].cache_key, "v1", 1, now)
                    IN  cache' = r.cache /\ cstats' = r.stats
               ELSE UNCHANGED <<cache, cstats>>
            /\ UNCHANGED mstats
    /\ UNCHANGED <<connection, connected, tested, lockOwner, chanSends, scCalls, connectCalls,
                   now, ret, lastSet, accessLog, nops, max_size, bulkVars, rangeVars, queryVars, parseVars, lockVars, sweepVars, retryVars>>

\* connect, lines 96-108: under connection_lock, open the session, assign it
\* to self.connection (line 105) and send the test command
ConnectBegin(t) ==
    /\ pc[t] = "idle"
    /\ lockOwner = "none"
    /\ mstats.connection_attempts < MaxConnects
    /\ lockOwner' = t
    /\ mstats' = [mstats EXCEPT !.connection_attempts = @ + 1]
    /\ connection' = "handle"
    /\ tested' = FALSE
    /\ inflight' = inflight \cup {t}
    /\ pc' = [pc EXCEPT ![t] = "co_test"]
    /\ connectCalls' = connectCalls + 1
    /\ UNCHANGED <<connected, call, chanSends, cachedDone, outcome, scCalls, scErrors,
                   cacheVars, bulkVars, rangeVars, queryVars, parseVars, lockVars, sweepVars, retryVars>>

\* variant: a failed test is followed by another attempt
ConnectEndRetry(t, ok) ==
    /\ pc[t] = "co_test"
    /\ IF ok
       THEN /\ connected' = TRUE
            /\ tested' = TRUE
            /\ mstats' = [mstats EXCEPT !.successful_connections = @ + 1]
            /\ outcome' = [outcome EXCEPT ![t] = "True"]
            /\ inflight' = inflight \ {t}
            /\ lockOwner' = "none"
            /\ pc' = [pc EXCEPT ![t] = "idle"]
       ELSE /\ mstats' = [mstats EXCEPT !.errors = @ + 1,
                                        !.connection_attempts = @ + 1]
            /\ UNCHANGED <<connected, tested, outcome, inflight, lockOwner, pc>>
    /\ UNCHANGED <<connection, call, chanSends, cachedDone, scCalls, scErrors,
                   connectCalls, cacheVars, bulkVars, rangeVars, queryVars, parseVars, lockVars, sweepVars, retryVars>>

\* connect, lines 109-136: the test passes or fails; the lock is released
ConnectEnd(t, ok) ==
    /\ pc[t] = "co_test"
    /\ inflight' = inflight \ {t}
    /\ lockOwner' = "none"
    /\ pc' = [pc EXCEPT ![t] = "idle"]
    /\ IF ok
       THEN /\ connected' = TRUE
            /\ tested' = TRUE
            /\ mstats' = [mstats EXCEPT !.successful_connections = @ + 1]
            /\ outcome' = [outcome EXCEPT ![t] = "True"]
       ELSE /\ mstats' = [mstats EXCEPT !.errors = @ + 1]
            /\ outcome' = [outcome EXCEPT ![t] = "False"]
            /\ UNCHANGED <<connected, tested>>
    /\ UNCHANGED <<connection, call, chanSends, cachedDone, scCalls, scErrors,
                   connectCalls, cacheVars, bulkVars, rangeVars, queryVars, parseVars, lockVars, sweepVars, retryVars>>

\* disconnect, lines 138-153, under connection_lock
Disconnect(t) ==
    /\ pc[t] = "idle"
    /\ lockOwner = "none"
    /\ connection # "None"
    /\ connection' = "None"
    /\ connected' = FALSE
    /\ tested' = FALSE
    /\ outcome' = [outcome EXCEPT ![t] = "True"]
    /\ UNCHANGED <<lockOwner, pc, call, inflight, mstats, chanSends,
                   cachedDone, scCalls, scErrors, connectCalls,
                   cacheVars, bulkVars, rangeVars, queryVars, parseVars, lockVars, sweepVars, retryVars>>

ExecInit ==
    /\ connection = "None"
    /\ connected = FALSE
    /\ tested = FALSE
    /\ lockOwner = "none"
    /\ pc = [t \in Threads |-> "idle"]
    /\ call = [t \in Threads |-> NoCall]
    /\ inflight = {}
    /\ mstats = ZeroMStats
    /\ chanSends = [c \in Cmds |-> 0]
    /\ cachedDone = [c \in Cmds |-> 0]
    /\ outcome = [t \in Threads |-> "none"]
    /\ scCalls = 0
    /\ scErrors = 0
    /\ connectCalls = 0

(***************************************************************************)
(* Text: Python strings are sequences of one-character strings             *)
(***************************************************************************)
Digits == <<"0", "1", "2", "3", "4", "5", "6", "7", "8", "9">>

IsDigit(ch) == \E i \in 1..10 : Digits[i] = ch

DigitVal(ch) == (CHOOSE i \in 1..10 : Digits[i] = ch) - 1

\* str(n) in an f-string, n >= 0
RECURSIVE IntToStr(_)
IntToStr(n) == IF n < 10 THEN <<Digits[n + 1]>>
               ELSE IntToStr(n \div 10) \o <<Digits[(n % 10) + 1]>>

\* int(s) for an unsigned decimal s; anything else raises ValueError
IsIntStr(s) == Len(s) > 0 /\ \A i \in 1..Len(s) : IsDigit(s[i])

RECURSIVE StrToInt(_)
StrToInt(s) == IF Len(s) = 0 THEN 0
               ELSE StrToInt(SubSeq(s, 1, Len(s) - 1)) * 10 + DigitVal(s[Len(s)])

\* s.startswith(p)
StartsWith(s, p) == Len(s) >= Len(p) /\ SubSeq(s, 1, Len(p)) = p

\* s.replace(p, ''), p non-empty
RECURSIVE Remove(_, _)
Remove(s, p) == IF Len(s) < Len(p) THEN s
                ELSE IF SubSeq(s, 1, Len(p)) = p
                THEN Remove(SubSeq(s, Len(p) + 1, Len(s)), p)
                ELSE <<s[1]>> \o Remove(Tail(s), p)

\* s.split(ch)
RECURSIVE Split(_, _)
Split(s, ch) ==
    IF \E i \in 1..Len(s) : s[i] = ch
    THEN LET i == CHOOSE j \in 1..Len(s) :
                      s[j] = ch /\ \A m \in 1..(j - 1) : s[m] # ch
         IN  <<SubSeq(s, 1, i - 1)>> \o Split(SubSeq(s, i + 1, Len(s)), ch)
    ELSE <<s>>

(***************************************************************************)
(* cisco_manager.py: the range compressor                                  *)
(***************************************************************************)
GiLower == <<"g", "i">>
GiUpper == <<"G", "i">>

\* f"gi{slot_prefix}/{start}" or f"gi{slot_prefix}/{start}-{end}"
RangeText(prefix, cur) ==
    IF cur[1] = cur[2]
    THEN GiLower \o prefix \o <<"/">> \o IntToStr(cur[1])
    ELSE GiLower \o prefix \o <<"/">> \o IntToStr(cur[1]) \o <<"-">> \o IntToStr(cur[2])

\* variant: a range is extended while the next port is at most end + 2
ExtendsRangeLoose(port, cur) == port <= cur[2] + 2
\* variant: a range is never extended
ExtendsRangeNever(port, cur) == port = cur[2] + 1 /\ port < cur[1]
\* the elif of the scan: port == current_range_end + 1
ExtendsRange(port, cur) == port = cur[2] + 1

\* The scan of _create_port_ranges from index i on; cur is <<>> while
\* current_range_start is None, else <<current_range_start, current_range_end>>
RECURSIVE PortRangesFrom(_, _, _, _, _)
PortRangesFrom(prefix, ports, i, ranges, cur) ==
    IF i > Len(ports)
    THEN IF cur = <<>> THEN ranges ELSE Append(ranges, RangeText(prefix, cur))
    ELSE IF cur = <<>>
    THEN PortRangesFrom(prefix, ports, i + 1, ranges, <<ports[i], ports[i]>>)
    ELSE IF ExtendsRange(ports[i], cur)
    THEN PortRangesFrom(prefix, ports, i + 1, ranges, <<cur[1], ports[i]>>)
    ELSE PortRangesFrom(prefix, ports, i + 1,
                        Append(ranges, RangeText(prefix, cur)),
                        <<ports[i], ports[i]>>)

\* CiscoManager._create_port_ranges
CreatePortRanges(prefix, ports) == PortRangesFrom(prefix, ports, 1, <<>>, <<>>)

\* The grouping loop of _create_interface_ranges: groups is the dict
\* interface_groups in insertion order; raised when int() rejects a port part
RECURSIVE GroupInterfaces(_, _, _)
GroupInterfaces(ifs, i, groups) ==
    IF i > Len(ifs) THEN [raised |-> FALSE, groups |-> groups]
    ELSE IF ~StartsWith(ifs[i], GiUpper)
    THEN GroupInterfaces(ifs, i + 1, groups)
    ELSE LET parts == Split(Remove(ifs[i], GiUpper), "/")
         IN  IF Len(parts) # 3 THEN GroupInterfaces(ifs, i + 1, groups)
             ELSE IF ~IsIntStr(parts[3]) THEN [raised |-> TRUE, groups |-> groups]
             ELSE LET slot == parts[1] \o <<"/">> \o parts[2]
                      n    == StrToInt(parts[3])
                      g    == IF \E j \in 1..Len(groups) : groups[j].slot = slot
                              THEN CHOOSE j \in 1..Len(groups) : groups[j].slot = slot
                              ELSE 0
                  IN  GroupInterfaces(ifs, i + 1,
                        IF g = 0
                        THEN Append(groups, [slot |-> slot, ports |-> <<n>>])
                        ELSE [groups EXCEPT ![g].ports = Append(@, n)])

RECURSIVE RangesOfGroups(_, _)
RangesOfGroups(groups, i) ==
    IF i > Len(groups) THEN <<>>
    ELSE CreatePortRanges(groups[i].slot,
                          SortSeq(groups[i].ports, LAMBDA a, b : a < b))
         \o RangesOfGroups(groups, i + 1)

\* CiscoManager._create_interface_ranges
CreateInterfaceRanges(ifs) ==
    LET g == GroupInterfaces(ifs, 1, <<>>)
    IN  IF g.raised
        THEN [i \in 1..Len(ifs) |-> GiLower \o Remove(ifs[i], GiUpper)]
        ELSE RangesOfGroups(g.groups, 1)

(***************************************************************************)
(* cisco_manager.py: bulk_disable_interfaces_optimized /                   *)
(* bulk_enable_interfaces_optimized and _send_config_command_safe          *)
(***************************************************************************)
MaxPorts == 3       \* longest port list handed to a bulk call
MaxChanOps == 2     \* channel operations of a call counted one by one
MaxBatch == 2       \* largest max_batch_size tried

\* Interface names the callers pass: the keys of the interface map
PortPool == { <<"G", "i", "1", "/", "0", "/", "1">>,
              <<"G", "i", "1", "/", "0", "/", "2">>,
              <<"F", "a", "0", "/", "1">>,
              <<"G", "i", "1", "/", "0", "/", "x">> }

\* Lists of names; a name may be repeated
PortLists == UNION { [1..n -> PortPool] : n \in 0..MaxPorts }

BatchSizes == (-1)..MaxBatch

\* The two commands of a batch: "interface range ..." and the action
NumCommands == 2

\* No command of the transaction has reached the device
NoneDelivered == [k \in 1..NumCommands |-> 0]

EmptyMap == [p \in {} |-> FALSE]

Min(a, b) == IF a < b THEN a ELSE b

\* One more channel operation; from MaxChanOps on the count stays there
CountOp(n) == Min(n + 1, MaxChanOps)

\* len(batches) for range(0, len(interfaces), max_batch_size), size # 0
NumBatches == IF bSize < 0 THEN 0 ELSE (Len(bIn) + bSize - 1) \div bSize

\* variant: each batch also takes the first interface of the next one
BatchOverlapping(i) == SubSeq(bIn, (i - 1) * bSize + 1, Min(i * bSize + 1, Len(bIn)))
\* batches[i - 1] = interfaces[(i-1)*size : i*size]
Batch(i) == SubSeq(bIn, (i - 1) * bSize + 1, Min(i * bSize, Len(bIn)))

\* variant: only the first interface of the batch is entered
MarkFirst(res, batch, success) ==
    [p \in DOMAIN res \cup {batch[1]} |->
        IF p = batch[1] THEN success ELSE res[p]]
\* for interface in batch: results[interface] = success
MarkBatch(res, batch, success) ==
    [p \in DOMAIN res \cup Range(batch) |->
        IF p \in Range(batch) THEN success ELSE res[p]]

\* variant: the method reports success whatever the transaction returned
PortReturnAlways(result) == "True"
\* enable_interface / disable_interface, lines 439-446 and 462-469
PortReturn(result) == IF result THEN "True" ELSE "False"

\* _send_config_command_safe returns (the history of its deliveries ends
\* with it).  The bulk loop enters the batch's
\* result for every interface of the batch and goes on to the next batch;
\* enable_interface / disable_interface return what PortReturn makes of it
Record(success) ==
    /\ batchLog' = Append(batchLog, IF success THEN "ok" ELSE "fail")
    /\ delivered' = NoneDelivered
    /\ IF pOp = "none"
       THEN /\ results' = MarkBatch(results, Batch(bIdx), success)
            /\ bIdx' = bIdx + 1
            /\ bPc' = "batch"
            /\ UNCHANGED pRet
       ELSE /\ pRet' = PortReturn(success)
            /\ bPc' = "p_done"
            /\ UNCHANGED <<results, bIdx>>

\* variant: the buffer is drained before the empty-list test
BulkStartDrainFirst ==
    /\ bPc = "start"
    /\ chanOps' = IF connection = "None" THEN chanOps ELSE CountOp(chanOps)
    /\ IF bIn = <<>>
       THEN bPc' = "done" /\ UNCHANGED <<results, bIdx>>
       ELSE IF bSize = 0
       THEN /\ results' = [p \in Range(bIn) |-> FALSE]
            /\ bPc' = "done"
            /\ UNCHANGED bIdx
       ELSE bPc' = "batch" /\ bIdx' = 1 /\ UNCHANGED results
    /\ UNCHANGED <<bIn, bSize, mode, batchLog, cmdIdx, cacheVars, execVars, rangeVars, queryVars, parseVars, lockVars, sweepVars, retryVars>>
    /\ UNCHANGED <<pOp, pRet>>
    /\ UNCHANGED <<raisedInConfig, delivered>>

\* lines 574-588: the empty-list return and the split into batches (range()
\* with step 0 raises ValueError, which the outer except turns into all-False)
BulkStart ==
    /\ bPc = "start"
    /\ IF bIn = <<>>
       THEN bPc' = "done" /\ UNCHANGED <<results, bIdx>>
       ELSE IF bSize = 0
       THEN /\ results' = [p \in Range(bIn) |-> FALSE]
            /\ bPc' = "done"
            /\ UNCHANGED bIdx
       ELSE bPc' = "batch" /\ bIdx' = 1 /\ UNCHANGED results
    /\ UNCHANGED <<bIn, bSize, mode, chanOps, batchLog, cmdIdx,
                   cacheVars, execVars, rangeVars, queryVars, parseVars, lockVars, sweepVars, retryVars>>
    /\ UNCHANGED <<pOp, pRet>>
    /\ UNCHANGED <<raisedInConfig, delivered>>

\* lines 591-597 and 625-631: the next batch, its ranges, "if ranges:"
BatchNext ==
    /\ bPc = "batch"
    /\ IF bIdx > NumBatches
       THEN bPc' = "done" /\ UNCHANGED <<bIdx, batchLog>>
       ELSE IF CreateInterfaceRanges(Batch(bIdx)) = <<>>
       THEN /\ batchLog' = Append(batchLog, "skipped")
            /\ bIdx' = bIdx + 1
            /\ UNCHANGED bPc
       ELSE bPc' = "cfg_set" /\ UNCHANGED <<bIdx, batchLog>>
    /\ UNCHANGED <<bIn, bSize, results, mode, chanOps, cmdIdx,
                   cacheVars, execVars, rangeVars, queryVars, parseVars, lockVars, sweepVars, retryVars>>
    /\ UNCHANGED <<pOp, pRet>>
    /\ raisedInConfig' = FALSE
    /\ delivered' = NoneDelivered

\* lines 380-392: connection.send_config_set(commands, ...).  When it raises
\* with the session in configuration mode, the device has accepted d of the
\* commands: none when entering configuration mode raised, all of them when
\* the read after the last write or the exit from configuration mode raised
\* (cmd_verify=False writes the commands without reading in between)
SendConfigSet(reply, m) ==
    /\ bPc = "cfg_set"
    /\ chanOps' = IF connection = "None" THEN chanOps ELSE CountOp(chanOps)
    /\ IF connection = "None" \/ mode = "closed"
       THEN bPc' = "m_clean" /\ UNCHANGED <<mode, results, batchLog, bIdx, pRet, delivered>>
       ELSE IF reply = "ok"
       THEN mode' = "exec" /\ Record(TRUE)
       ELSE /\ mode' = m
            /\ bPc' = "m_clean"
            /\ UNCHANGED <<results, batchLog, bIdx, pRet>>
            /\ \E d \in {0, NumCommands} :
                  /\ m = "exec" => d = 0
                  /\ delivered' = [k \in 1..NumCommands |->
                                      delivered[k] + (IF k <= d THEN 1 ELSE 0)]
    /\ UNCHANGED <<bIn, bSize, cmdIdx, cacheVars, execVars, rangeVars, queryVars, parseVars, lockVars, sweepVars, retryVars>>
    /\ UNCHANGED pOp
    /\ raisedInConfig' = (connection # "None" /\ mode # "closed"
                           /\ reply # "ok" /\ m = "config")

\* line 396: _clean_buffer_and_wait(0.3) before the manual sequence
ManualClean ==
    /\ bPc = "m_clean"
    /\ chanOps' = IF connection = "None" THEN chanOps ELSE CountOp(chanOps)
    /\ bPc' = "m_conf"
    /\ UNCHANGED <<bIn, bSize, bIdx, results, mode, batchLog, cmdIdx,
                   cacheVars, execVars, rangeVars, queryVars, parseVars, lockVars, sweepVars, retryVars>>
    /\ UNCHANGED <<pOp, pRet>>
    /\ UNCHANGED <<raisedInConfig, delivered>>

\* line 400: send_command("configure terminal")
ManualConf(reply, m) ==
    /\ bPc = "m_conf"
    /\ chanOps' = IF connection = "None" THEN chanOps ELSE CountOp(chanOps)
    /\ IF connection = "None" \/ mode = "closed"
       THEN bPc' = "e_end" /\ UNCHANGED <<mode, cmdIdx>>
       ELSE IF reply = "ok"
       THEN mode' = "config" /\ cmdIdx' = 1 /\ bPc' = "m_cmd"
       ELSE /\ m \in {mode, "config"}
            /\ mode' = m
            /\ bPc' = "e_end"
            /\ UNCHANGED cmdIdx
    /\ UNCHANGED <<bIn, bSize, bIdx, results, batchLog,
                   cacheVars, execVars, rangeVars, queryVars, parseVars, lockVars, sweepVars, retryVars>>
    /\ UNCHANGED <<pOp, pRet>>
    /\ raisedInConfig' = IF connection # "None" /\ mode # "closed" /\ reply # "ok"
                          THEN raisedInConfig \/ mode = "config" \/ m = "config"
                          ELSE raisedInConfig
    /\ UNCHANGED delivered

\* lines 403-406: the commands, one by one; a command whose send_command
\* raises is not counted as accepted
ManualCmd(reply) ==
    /\ bPc = "m_cmd"
    /\ chanOps' = CountOp(chanOps)
    /\ IF reply = "ok"
       THEN /\ cmdIdx' = cmdIdx + 1
            /\ bPc' = IF cmdIdx = NumCommands THEN "m_end" ELSE "m_cmd"
       ELSE bPc' = "e_end" /\ UNCHANGED cmdIdx
    /\ UNCHANGED <<bIn, bSize, bIdx, results, mode, batchLog,
                   cacheVars, execVars, rangeVars, queryVars, parseVars, lockVars, sweepVars, retryVars>>
    /\ UNCHANGED <<pOp, pRet>>
    /\ raisedInConfig' = (raisedInConfig \/ reply # "ok")
    /\ delivered' = IF reply = "ok" THEN [delivered EXCEPT ![cmdIdx] = @ + 1]
                     ELSE delivered

\* line 410: send_command("end")
ManualEnd(reply, m) ==
    /\ bPc = "m_end"
    /\ chanOps' = CountOp(chanOps)
    /\ IF reply = "ok"
       THEN mode' = "exec" /\ bPc' = "m_final"
       ELSE /\ m \in {mode, "exec"}
            /\ mode' = m
            /\ bPc' = "e_end"
    /\ UNCHANGED <<bIn, bSize, bIdx, results, batchLog, cmdIdx,
                   cacheVars, execVars, rangeVars, queryVars, parseVars, lockVars, sweepVars, retryVars>>
    /\ UNCHANGED <<pOp, pRet>>
    /\ raisedInConfig' = (raisedInConfig \/ reply # "ok")
    /\ UNCHANGED delivered

\* lines 413-416: the final _clean_buffer_and_wait, then return True
ManualFinal ==
    /\ bPc = "m_final"
    /\ chanOps' = CountOp(chanOps)
    /\ Record(TRUE)
    /\ UNCHANGED <<bIn, bSize, mode, cmdIdx, cacheVars, execVars, rangeVars, queryVars, parseVars, lockVars, sweepVars, retryVars>>
    /\ UNCHANGED pOp
    /\ UNCHANGED raisedInConfig

\* lines 418-426: the emergency cleanup's send_command("end"); when it raises
\* the bare except skips the "exit" and the method returns False
EmergencyEnd(reply, m) ==
    /\ bPc = "e_end"
    /\ chanOps' = IF connection = "None" THEN chanOps ELSE CountOp(chanOps)
    /\ IF connection = "None" \/ mode = "closed"
       THEN Record(FALSE) /\ UNCHANGED mode
       ELSE IF reply = "ok"
       THEN /\ mode' = "exec"
            /\ bPc' = "e_exit"
            /\ UNCHANGED <<results, batchLog, bIdx, pRet, delivered>>
       ELSE /\ m \in {mode, "exec"}
            /\ mode' = m
            /\ Record(FALSE)
    /\ UNCHANGED <<bIn, bSize, cmdIdx, cacheVars, execVars, rangeVars, queryVars, parseVars, lockVars, sweepVars, retryVars>>
    /\ UNCHANGED pOp
    /\ UNCHANGED raisedInConfig

\* line 423: the emergency cleanup's send_command("exit"): one level up from
\* configuration mode, a logout at the top-level prompt; then return False
EmergencyExit ==
    /\ bPc = "e_exit"
    /\ chanOps' = CountOp(chanOps)
    /\ mode' = IF mode = "config" THEN "exec" ELSE "closed"
    /\ Record(FALSE)
    /\ UNCHANGED <<bIn, bSize, cmdIdx, cacheVars, execVars, rangeVars, queryVars, parseVars, lockVars, sweepVars, retryVars>>
    /\ UNCHANGED pOp
    /\ UNCHANGED raisedInConfig

\* enable_interface / disable_interface, lines 432-437 and 455-460: the two
\* commands for the one interface go to _send_config_command_safe
PortCall ==
    /\ bPc = "start"
    /\ pOp # "none"
    /\ bPc' = "cfg_set"
    /\ UNCHANGED <<bIn, bSize, bIdx, results, mode, chanOps, batchLog, cmdIdx,
                   raisedInConfig, delivered, pOp, pRet,
                   cacheVars, execVars, rangeVars, queryVars, parseVars, lockVars, sweepVars, retryVars>>

BulkIdle ==
    /\ bIn = <<>>
    /\ bSize = 1
    /\ bPc = "start"
    /\ bIdx = 0
    /\ results = EmptyMap
    /\ mode = "exec"
    /\ chanOps = 0
    /\ batchLog = <<>>
    /\ cmdIdx = 0
    /\ raisedInConfig = FALSE
    /\ delivered = NoneDelivered
    /\ pOp = "none"
    /\ pRet = "none"

(***************************************************************************)
(* The range compressor as a step                                          *)
(***************************************************************************)
FirstPort == 1      \* port numbers are FirstPort..MaxPort
MaxPort == 10

Prefixes == { <<"1", "/", "0">>, <<"2", "/", "1", "0">> }

\* Ascending lists of distinct port numbers
RECURSIVE Ascending(_)
Ascending(S) == IF S = {} THEN <<>>
                ELSE LET m == CHOOSE x \in S : \A y \in S : x <= y
                     IN  <<m>> \o Ascending(S \ {m})

CompressRun ==
    /\ rPc = "ready"
    /\ rOut' = CreatePortRanges(rPrefix, rIn)
    /\ rPc' = "done"
    /\ UNCHANGED <<rIn, rPrefix, cacheVars, execVars, bulkVars, queryVars, parseVars, lockVars, sweepVars, retryVars>>

RangeIdle ==
    /\ rIn = <<>>
    /\ rPrefix = <<"1", "/", "0">>
    /\ rOut = <<>>
    /\ rPc = "ready"

(***************************************************************************)
(* cisco_manager.py: get_interfaces_status                                 *)
(***************************************************************************)
NumStrategies == 4  \* Method 1 .. Method 4
MaxYield == 5       \* most records a parser returns

\* What the device answers to a method's command: the channel raises, or
\* the text holds n parsable records
Answers == {[raises |-> TRUE, n |-> 0]}
           \cup {[raises |-> FALSE, n |-> n] : n \in 0..MaxYield}

\* Whether send_command for method i raises (CiscoCommandError)
CommandRaises(i) == ~connected \/ qDev[i].raises

\* "if output and len(output) > 100" for method 1, "if output" for the others
OutputUsed(i) == IF i = 1 THEN qLong ELSE TRUE

\* The records method i obtains
Yield(i) == IF CommandRaises(i) \/ ~OutputUsed(i) THEN 0 ELSE qDev[i].n

\* variant: a method's result is returned whatever its size
WinsAlways(n) == n >= 0
\* "if len(interfaces) > 0: return interfaces"
Wins(n) == n > 0

\* the method tried after method i did not return
NextStrategy(i, raised) == i + 1

\* The DEBUG_INFO map: one record of type "Diagnostic"
Diagnostic == [kind |-> "DEBUG_INFO", by |-> 0, n |-> 1, type |-> "Diagnostic"]

NoResult == [kind |-> "none", by |-> 0, n |-> 0, type |-> "none"]

\* The command of each method and the delay_factor and use_cache arguments
\* its send_command call is given (lines 270, 296, 309, 322): the use_cache
\* argument of get_interfaces_status itself is not read
QueryCmds == <<"show interfaces status", "show ip interface brief",
               "show interfaces | include Gigabit", "show interfaces">>
QueryDelay == <<2, 2, 3, 5>>
UsesCache(i) == i \in {1, 2}

\* What send_command does for method i: the lookup in the command cache
\* when use_cache is set, the channel exchange on a miss
Lookup(i) ==
    IF connected /\ UsesCache(i) /\ connection # "None" /\ CommandCacheResolves
    THEN CacheGet(cache, cstats, CacheKey(Host, QueryCmds[i], QueryDelay[i]), now)
    ELSE [cache |-> cache, stats |-> cstats, val |-> Absent]

ServedFromCache(i) == Lookup(i).val # Absent

\* One method of get_interfaces_status: its send_command (cache lookup,
\* channel exchange, cache store), its parser, the return when it has
\* records; after the last method, the DEBUG_INFO return
StrategyStep(i) ==
    /\ ~qDone
    /\ qStep = i
    /\ LET hit    == ServedFromCache(i)
           sent   == connected /\ ~hit
           raises == ~hit /\ CommandRaises(i)
           n      == IF hit THEN (IF OutputUsed(i) THEN qDev[i].n ELSE 0) ELSE Yield(i)
           stored == sent /\ ~raises /\ UsesCache(i) /\ connection # "None"
                     /\ CommandCacheResolves
           c1     == Lookup(i)
           c2     == IF stored
                     THEN CacheSet(c1.cache, c1.stats,
                                   CacheKey(Host, QueryCmds[i], QueryDelay[i]),
                                   "v1", 1, now)
                     ELSE [cache |-> c1.cache, stats |-> c1.stats, evicted |-> <<>>]
       IN  /\ qSent' = IF sent THEN Append(qSent, i) ELSE qSent
           /\ qLog' = Append(qLog, [raised |-> raises, n |-> n])
           /\ cache' = c2.cache
           /\ cstats' = c2.stats
           /\ mstats' = IF ~connected THEN mstats
                         ELSE [mstats EXCEPT
                                 !.cache_hits = IF hit THEN @ + 1 ELSE @,
                                 !.cache_misses = IF UsesCache(i) /\ ~hit THEN @ + 1 ELSE @,
                                 !.commands_executed = IF sent THEN @ + 1 ELSE @,
                                 !.errors = IF sent /\ raises THEN @ + 1 ELSE @]
           /\ IF Wins(n)
              THEN /\ qRet' = [kind |-> "parsed", by |-> i, n |-> n,
                               type |-> "Ethernet"]
                   /\ qDone' = TRUE
                   /\ UNCHANGED qStep
              ELSE /\ qStep' = NextStrategy(i, raises)
                   /\ IF qStep' > NumStrategies
                      THEN qRet' = Diagnostic /\ qDone' = TRUE
                      ELSE UNCHANGED <<qRet, qDone>>
    /\ UNCHANGED <<qDev, qLong, qUseCache, qCalls, qPrev,
                   now, ret, lastSet, accessLog, nops, max_size,
                   connection, connected, tested, lockOwner, pc, call, inflight,
                   chanSends, cachedDone, outcome, scCalls, scErrors, connectCalls,
                   bulkVars, rangeVars, parseVars, lockVars, sweepVars, retryVars>>

\* The caller makes another get_interfaces_status call
QueryAgain(uc) ==
    /\ qDone
    /\ qCalls < MaxQueries
    /\ qCalls' = qCalls + 1
    /\ qUseCache' = uc
    /\ qPrev' = qRet
    /\ qStep' = 1
    /\ qDone' = FALSE
    /\ qRet' = NoResult
    /\ qSent' = <<>>
    /\ qLog' = <<>>
    /\ UNCHANGED <<qDev, qLong, cacheVars, execVars, bulkVars, rangeVars, parseVars,
                   lockVars, sweepVars, retryVars>>

QueryIdle ==
    /\ qUseCache = TRUE
    /\ qDev = [i \in 1..NumStrategies |-> [raises |-> FALSE, n |-> 0]]
    /\ qLong = FALSE
    /\ qStep = 1
    /\ qDone = FALSE
    /\ qRet = NoResult
    /\ qSent = <<>>
    /\ qLog = <<>>
    /\ qCalls = 1
    /\ qPrev = NoResult

(***************************************************************************)
(* cisco_parsers.py: CiscoParser                                           *)
(***************************************************************************)
Letters == {"a", "b", "c", "d", "e", "f", "g", "h", "i", "j", "k", "l", "m", "n", "o", "p", "q", "r", "s", "t", "u", "v", "w", "x", "y", "z", "A", "B", "C", "D", "E", "F", "G", "H", "I", "J", "K", "L", "M", "N", "O", "P", "Q", "R", "S", "T", "U", "V", "W", "X", "Y", "Z"}

DigitSet == {Digits[i] : i \in 1..10}

UpperCase == <<"A", "B", "C", "D", "E", "F", "G", "H", "I", "J", "K", "L", "M", "N", "O", "P", "Q", "R", "S", "T", "U", "V", "W", "X", "Y", "Z">>
LowerCase == <<"a", "b", "c", "d", "e", "f", "g", "h", "i", "j", "k", "l", "m", "n", "o", "p", "q", "r", "s", "t", "u", "v", "w", "x", "y", "z">>

IsSpace(ch) == ch \in {" ", "\t", "\n", "\r"}

\* s.strip()
RECURSIVE LStrip(_)
LStrip(s) == IF s # <<>> /\ IsSpace(s[1]) THEN LStrip(Tail(s)) ELSE s

RECURSIVE RStrip(_)
RStrip(s) == IF s # <<>> /\ IsSpace(s[Len(s)])
             THEN RStrip(SubSeq(s, 1, Len(s) - 1)) ELSE s

Strip(s) == RStrip(LStrip(s))

\* s.split(): the runs of non-blank characters
RECURSIVE SplitWs(_)
SplitWs(s) ==
    LET t == LStrip(s)
    IN  IF t = <<>> THEN <<>>
        ELSE LET n == IF \E i \in 1..Len(t) : IsSpace(t[i])
                      THEN CHOOSE i \in 1..Len(t) :
                               IsSpace(t[i]) /\ \A j \in 1..(i - 1) : ~IsSpace(t[j])
                      ELSE Len(t) + 1
             IN  <<SubSeq(t, 1, n - 1)>> \o SplitWs(SubSeq(t, n, Len(t)))

\* p in s
Contains(s, p) == \E i \in 1..(Len(s) - Len(p) + 1) : SubSeq(s, i, i + Len(p) - 1) = p

\* sep.join(parts)
RECURSIVE Join(_, _)
Join(parts, sep) == IF parts = <<>> THEN <<>>
                    ELSE IF Len(parts) = 1 THEN parts[1]
                    ELSE parts[1] \o sep \o Join(Tail(parts), sep)

\* s.lower()
LowerChar(ch) == IF \E i \in 1..26 : UpperCase[i] = ch
                 THEN LowerCase[CHOOSE i \in 1..26 : UpperCase[i] = ch]
                 ELSE ch

Lower(s) == [i \in 1..Len(s) |-> LowerChar(s[i])]

\* The length of the longest run of characters of class C that starts at s[i]
RunLen(s, i, C) ==
    IF i > Len(s) THEN 0
    ELSE CHOOSE n \in 0..(Len(s) - i + 1) :
             /\ \A j \in i..(i + n - 1) : s[j] \in C
             /\ (i + n > Len(s) \/ s[i + n] \notin C)

\* Where re.match(r'[A-Za-z]+\d+/\d+/\d+', s) stops: the index of the first
\* character after the match, 0 when there is no match
ShapeEnd(s) ==
    LET a  == RunLen(s, 1, Letters)
        b  == RunLen(s, 1 + a, DigitSet)
        p1 == 1 + a + b
        c  == RunLen(s, p1 + 1, DigitSet)
        p2 == p1 + 1 + c
        d  == RunLen(s, p2 + 1, DigitSet)
    IN  IF /\ a >= 1 /\ b >= 1 /\ p1 <= Len(s) /\ s[p1] = "/"
           /\ c >= 1 /\ p2 <= Len(s) /\ s[p2] = "/" /\ d >= 1
        THEN p2 + 1 + d ELSE 0

Unknown == <<"u", "n", "k", "n", "o", "w", "n">>
Auto == <<"a", "u", "t", "o">>
Ethernet == <<"E", "t", "h", "e", "r", "n", "e", "t">>
NoText == <<>>

\* interfaces = {}
NoInterfaces == [x \in {} |-> Null]

\* interfaces[name] = record
Put(d, name, rec) == [x \in DOMAIN d \cup {name} |-> IF x = name THEN rec ELSE d[x]]

\* variant: every column is read one place to the right
FieldShifted(parts, i, default) == IF Len(parts) > i + 1 THEN parts[i + 2] ELSE default
\* parts[i] if len(parts) > i else default
Field(parts, i, default) == IF Len(parts) > i THEN parts[i + 1] ELSE default

\* parse_interface_status_enhanced, lines 32-37: header_patterns
HeaderPatterns(line) ==
    \/ Contains(line, <<"P", "o", "r", "t">>) /\ Contains(line, <<"S", "t", "a", "t", "u", "s">>)
    \/ Contains(line, <<"I", "n", "t", "e", "r", "f", "a", "c", "e">>) /\ Contains(line, <<"S", "t", "a", "t", "u", "s">>)
    \/ Contains(line, <<"P", "o", "r", "t">>) /\ Contains(line, <<"N", "a", "m", "e">>)
    \/ Contains(line, <<"P", "o", "r", "t">>) /\ Contains(line, <<"V", "L", "A", "N">>)

\* lines 28-43: the index of the header line (1-based), 0 when none is found
HeaderIndex(lines) ==
    IF \E i \in 1..Len(lines) : HeaderPatterns(Strip(lines[i]))
    THEN CHOOSE i \in 1..Len(lines) :
             /\ HeaderPatterns(Strip(lines[i]))
             /\ \A j \in 1..(i - 1) : ~HeaderPatterns(Strip(lines[j]))
    ELSE 0

\* lines 69-77: interface_patterns
InterfacePatterns(interface) ==
    \/ StartsWith(interface, <<"G", "i">>)
    \/ StartsWith(interface, <<"F", "a">>)
    \/ StartsWith(interface, <<"T", "e">>)
    \/ StartsWith(interface, <<"T", "w", "o", "G", "i">>)
    \/ StartsWith(interface, <<"F", "o", "r", "t", "y", "G", "i">>)
    \/ StartsWith(interface, <<"E", "t">>)
    \/ ShapeEnd(interface) > 0

\* lines 80-94: the record of one row
EnhancedRecord(parts, line) ==
    [status |-> Field(parts, 1, Unknown),
     vlan |-> Field(parts, 2, Unknown),
     duplex |-> Field(parts, 3, Unknown),
     speed |-> Field(parts, 4, Unknown),
     type |-> IF Len(parts) > 5 THEN Join(SubSeq(parts, 6, Len(parts)), <<" ">>)
              ELSE Unknown,
     description |-> NoText,
     raw_line |-> line]

\* lines 50-99: the loop over the lines, h the header index
RECURSIVE EnhancedFrom(_, _, _, _)
EnhancedFrom(lines, i, h, d) ==
    IF i > Len(lines) THEN d
    ELSE LET line  == Strip(lines[i])
             parts == SplitWs(line)
         IN  IF line = <<>> \/ StartsWith(line, <<"-">>) \/ StartsWith(line, <<"=">>)
             THEN EnhancedFrom(lines, i + 1, h, d)
             ELSE IF h > 0 /\ i <= h
             THEN EnhancedFrom(lines, i + 1, h, d)
             ELSE IF Len(parts) >= 2 /\ InterfacePatterns(parts[1])
             THEN EnhancedFrom(lines, i + 1, h,
                               Put(d, parts[1], EnhancedRecord(parts, line)))
             ELSE EnhancedFrom(lines, i + 1, h, d)

\* CiscoParser.parse_interface_status_enhanced
ParseInterfaceStatusEnhanced(output) ==
    LET lines == Split(output, "\n")
    IN  EnhancedFrom(lines, 1, HeaderIndex(lines), NoInterfaces)

\* parse_interface_status_fast, lines 129-135: valid_interface
ValidInterface(interface) ==
    /\ Len(interface) > 2
    /\ \/ interface[1] \in {"G", "F", "T", "E"}
       \/ Contains(interface, <<"/">>)
       \/ StartsWith(Lower(interface), <<"e", "t">>)

\* lines 140-147: the record of one row
FastRecord(parts) ==
    [status |-> parts[2],
     vlan |-> Field(parts, 2, Unknown),
     duplex |-> Field(parts, 3, Auto),
     speed |-> Field(parts, 4, Auto),
     type |-> Ethernet,
     description |-> NoText]

\* lines 113-152: the loop over the lines
RECURSIVE FastFrom(_, _, _)
FastFrom(lines, i, d) ==
    IF i > Len(lines) THEN d
    ELSE LET line  == lines[i]
             parts == SplitWs(line)
         IN  IF \/ line = <<>>
                \/ StartsWith(line, <<"-">>) \/ StartsWith(line, <<"=">>)
                \/ Contains(line, <<"P", "o", "r", "t">>)
                \/ Contains(line, <<"N", "a", "m", "e">>)
                \/ Contains(line, <<"I", "n", "t", "e", "r", "f", "a", "c", "e">>)
                \/ Len(Strip(line)) < 10
             THEN FastFrom(lines, i + 1, d)
             ELSE IF Len(parts) >= 2 /\ ValidInterface(parts[1])
             THEN FastFrom(lines, i + 1, Put(d, parts[1], FastRecord(parts)))
             ELSE FastFrom(lines, i + 1, d)

\* CiscoParser.parse_interface_status_fast
ParseInterfaceStatusFast(output) == FastFrom(Split(output, "\n"), 1, NoInterfaces)

\* parse_basic_interfaces, lines 240-246: interface_patterns; the last one is
\* re.match(r'^[A-Za-z]+\d+/\d+/\d+\s+is\s+', line)
BasicPatterns(line) ==
    \/ StartsWith(line, <<"G", "i", "g", "a", "b", "i", "t", "E", "t", "h", "e", "r", "n", "e", "t">>)
    \/ StartsWith(line, <<"F", "a", "s", "t", "E", "t", "h", "e", "r", "n", "e", "t">>)
    \/ StartsWith(line, <<"T", "e", "n", "G", "i", "g", "a", "b", "i", "t", "E", "t", "h", "e", "r", "n", "e", "t">>)
    \/ StartsWith(line, <<"E", "t", "h", "e", "r", "n", "e", "t">>)
    \/ LET e  == ShapeEnd(line)
           s1 == RunLen(line, e, {" ", "\t"})
           s2 == RunLen(line, e + s1 + 2, {" ", "\t"})
       IN  /\ e > 0 /\ s1 >= 1
           /\ e + s1 + 1 <= Len(line)
           /\ line[e + s1] = "i" /\ line[e + s1 + 1] = "s"
           /\ s2 >= 1

StConnected == <<"c", "o", "n", "n", "e", "c", "t", "e", "d">>
StUp == <<"u", "p">>
StNotconnect == <<"n", "o", "t", "c", "o", "n", "n", "e", "c", "t">>
StDown == <<"d", "o", "w", "n">>
StDisabled == <<"d", "i", "s", "a", "b", "l", "e", "d">>

\* lines 255-267: the status of one interface line
BasicStatus(line) ==
    LET low == Lower(line)
    IN  IF Contains(low, <<"i", "s", " ", "u", "p">>) /\ Contains(low, <<"l", "i", "n", "e", " ", "p", "r", "o", "t", "o", "c", "o", "l", " ", "i", "s", " ", "u", "p">>) THEN StConnected
        ELSE IF Contains(low, <<"i", "s", " ", "u", "p">>) THEN StUp
        ELSE IF Contains(low, <<"n", "o", "t", "c", "o", "n", "n", "e", "c", "t">>) THEN StNotconnect
        ELSE IF Contains(low, <<"i", "s", " ", "d", "o", "w", "n">>) THEN StDown
        ELSE IF Contains(low, <<"a", "d", "m", "i", "n", "i", "s", "t", "r", "a", "t", "i", "v", "e", "l", "y", " ", "d", "o", "w", "n">>) THEN StDisabled
        ELSE Unknown

\* lines 269-277: the record of one interface line
BasicRecord(line) ==
    [status |-> BasicStatus(line), vlan |-> Unknown, duplex |-> Unknown,
     speed |-> Unknown, type |-> Ethernet, description |-> NoText,
     raw_line |-> line]

\* lines 236-281: the loop over the lines
RECURSIVE BasicFrom(_, _, _)
BasicFrom(lines, i, d) ==
    IF i > Len(lines) THEN d
    ELSE LET line  == Strip(lines[i])
             parts == SplitWs(line)
         IN  IF BasicPatterns(line) /\ Len(parts) >= 3
             THEN BasicFrom(lines, i + 1, Put(d, parts[1], BasicRecord(line)))
             ELSE BasicFrom(lines, i + 1, d)

\* CiscoParser.parse_basic_interfaces
ParseBasicInterfaces(output) == BasicFrom(Split(output, "\n"), 1, NoInterfaces)

(***************************************************************************)
(* The parsers as steps, on the text a device prints                       *)
(***************************************************************************)
MaxRows == 2        \* rows of the status table

\* Header lines of "show interfaces status" on different IOS versions
Headers == { <<"P", "o", "r", "t", " ", " ", " ", " ", " ", " ", "N", "a", "m", "e", " ", " ", " ", " ", " ", " ", " ", " ", " ", " ", " ", " ", " ", " ", " ", "S", "t", "a", "t", "u", "s", " ", " ", " ", " ", " ", " ", " ", "V", "l", "a", "n", " ", " ", " ", " ", " ", " ", " ", "D", "u", "p", "l", "e", "x", " ", " ", "S", "p", "e", "e", "d", " ", "T", "y", "p", "e">>,
             <<"I", "n", "t", "e", "r", "f", "a", "c", "e", " ", " ", "S", "t", "a", "t", "u", "s", " ", " ", "V", "L", "A", "N", " ", " ", "D", "u", "p", "l", "e", "x", " ", " ", "S", "p", "e", "e", "d", " ", " ", "T", "y", "p", "e">> }

\* Rows of the table, as their columns: port, status, vlan, duplex, speed
\* and type (a type may be two words)
RowPool == { <<<<"G", "i", "1", "/", "0", "/", "1">>, <<"c", "o", "n", "n", "e", "c", "t", "e", "d">>, <<"1">>, <<"a", "-", "f", "u", "l", "l">>, <<"a", "-", "1", "0", "0", "0">>, <<"1", "0", "/", "1", "0", "0", "/", "1", "0", "0", "0", "B", "a", "s", "e", "T", "X">>>>,
             <<<<"G", "i", "1", "/", "0", "/", "2">>, <<"n", "o", "t", "c", "o", "n", "n", "e", "c", "t">>, <<"1">>, <<"a", "u", "t", "o">>, <<"a", "u", "t", "o">>, <<"N", "o", "t">>, <<"P", "r", "e", "s", "e", "n", "t">>>>,
             <<<<"F", "a", "0", "/", "1">>, <<"d", "i", "s", "a", "b", "l", "e", "d">>, <<"1", "0">>, <<"a", "u", "t", "o">>, <<"a", "u", "t", "o">>, <<"1", "0", "/", "1", "0", "0", "B", "a", "s", "e", "T", "X">>>>,
             <<<<"T", "e", "1", "/", "1", "/", "1">>, <<"c", "o", "n", "n", "e", "c", "t", "e", "d">>, <<"t", "r", "u", "n", "k">>, <<"f", "u", "l", "l">>, <<"1", "0", "G">>, <<"S", "F", "P", "-", "1", "0", "G", "B", "a", "s", "e", "-", "S", "R">>>> }

\* Tables of up to MaxRows rows, no port listed twice
Tables == UNION { {t \in [1..n -> RowPool] :
                      \A i \in 1..n, j \in 1..n : t[i][1] = t[j][1] => i = j}
                  : n \in 0..MaxRows }

\* The blanks between two columns
Paddings == { <<" ">>, <<" ", " ">> }

\* A row left over from the previous exchange, printed before the header
StaleRow == <<"G", "i", "1", "/", "0", "/", "9", " ", "c", "o", "n", "n", "e", "c", "t", "e", "d", " ", "1", " ", "a", "-", "f", "u", "l", "l", " ", "a", "-", "1", "0", "0", "0", " ", "1", "0", "/", "1", "0", "0", "/", "1", "0", "0", "0", "B", "a", "s", "e", "T", "X">>

\* Interface lines of "show interfaces"
RawNames == { <<"G", "i", "g", "a", "b", "i", "t", "E", "t", "h", "e", "r", "n", "e", "t", "1", "/", "0", "/", "1">>, <<"G", "i", "1", "/", "0", "/", "2">> }
RawAdmin == { <<"u", "p">>, <<"d", "o", "w", "n">>, <<"a", "d", "m", "i", "n", "i", "s", "t", "r", "a", "t", "i", "v", "e", "l", "y", " ", "d", "o", "w", "n">> }
RawProtocol == { <<"u", "p">>, <<"d", "o", "w", "n">> }
RawSuffix == { <<>>, <<" ", "(", "n", "o", "t", "c", "o", "n", "n", "e", "c", "t", ")">>, <<" ", "(", "d", "i", "s", "a", "b", "l", "e", "d", ")">> }

RawLine(name, admin, protocol, suffix) ==
    name \o <<" ", "i", "s", " ">> \o admin \o <<",", " ", "l", "i", "n", "e", " ", "p", "r", "o", "t", "o", "c", "o", "l", " ", "i", "s", " ">> \o protocol \o suffix

RawLines == { RawLine(n, a, p, x) :
                n \in RawNames, a \in RawAdmin, p \in RawProtocol, x \in RawSuffix }

\* The text of the table: the lines joined by newlines
RowLine(row) == Join(row, pPad)

TableText(header, rows) ==
    Join((IF pStale THEN <<StaleRow>> ELSE <<>>) \o header
         \o [i \in 1..Len(rows) |-> RowLine(rows[i])], <<"\n">>)

\* parse_interface_status_enhanced on the table with its header
ParseTable ==
    /\ pPc = "ready"
    /\ pOutT' = ParseInterfaceStatusEnhanced(TableText(<<pHdr>>, pRows))
    /\ pPc' = "table"
    /\ UNCHANGED <<pHdr, pRows, pPad, pStale, pRaw, pOutF, pOutB,
                   cacheVars, execVars, bulkVars, rangeVars, queryVars, lockVars, sweepVars, retryVars>>

\* parse_interface_status_fast on the same rows without the header line
ParseRows ==
    /\ pPc = "table"
    /\ pOutF' = ParseInterfaceStatusFast(
                    Join([i \in 1..Len(pRows) |-> RowLine(pRows[i])], <<"\n">>))
    /\ pPc' = "rows"
    /\ UNCHANGED <<pHdr, pRows, pPad, pStale, pRaw, pOutT, pOutB,
                   cacheVars, execVars, bulkVars, rangeVars, queryVars, lockVars, sweepVars, retryVars>>

\* parse_basic_interfaces on one interface line of the raw dump
ParseRaw ==
    /\ pPc = "rows"
    /\ pOutB' = ParseBasicInterfaces(pRaw)
    /\ pPc' = "done"
    /\ UNCHANGED <<pHdr, pRows, pPad, pStale, pRaw, pOutT, pOutF,
                   cacheVars, execVars, bulkVars, rangeVars, queryVars, lockVars, sweepVars, retryVars>>

ParseIdle ==
    /\ pHdr = <<>>
    /\ pRows = <<>>
    /\ pPad = <<" ">>
    /\ pStale = FALSE
    /\ pRaw = <<>>
    /\ pOutT = NoInterfaces
    /\ pOutF = NoInterfaces
    /\ pOutB = NoInterfaces
    /\ pPc = "ready"

(***************************************************************************)
(* cache_manager.py: the methods of ThreadSafeCache step by step, run by   *)
(* concurrent callers.  A method body inside "with self.lock" is one step  *)
(* that takes the lock, followed by the step that releases it; what a      *)
(* method does before "with self.lock" is made of its own steps.           *)
(***************************************************************************)
MaxLockOps == 3     \* cache method calls per behaviour of SpecLock

NoArg == [key |-> Null, val |-> Null]

\* set, lines 124-133: the value is serialized; a compressed value goes on
\* to count itself, reading stats['compressions'] first
LkSetBegin(t, k, v) ==
    /\ lkPc[t] = "idle"
    /\ lkArg' = [lkArg EXCEPT ![t] = [key |-> k, val |-> v]]
    /\ IF CompressData(v).raised
       THEN UNCHANGED <<lkPc, lkTmp, lkSets>>
       ELSE IF CompressData(v).compressed
       THEN /\ lkTmp' = [lkTmp EXCEPT ![t] = cstats.compressions]
            /\ lkSets' = lkSets + 1
            /\ lkPc' = [lkPc EXCEPT ![t] = "s_count"]
       ELSE /\ lkPc' = [lkPc EXCEPT ![t] = "s_store"]
            /\ UNCHANGED <<lkTmp, lkSets>>
    /\ nops' = nops + 1
    /\ UNCHANGED <<cache, cstats, now, ret, lastSet, accessLog, max_size,
                   lkOwner, lkBare,
                   execVars, bulkVars, rangeVars, queryVars, parseVars, sweepVars, retryVars>>

\* set, line 130: stats['compressions'] += 1 writes back the value read,
\* plus one; the lock is taken only at line 135
LkSetCount(t) ==
    /\ lkPc[t] = "s_count"
    /\ cstats' = [cstats EXCEPT !.compressions = lkTmp[t] + 1]
    /\ lkBare' = (lkBare \/ lkOwner # t)
    /\ lkPc' = [lkPc EXCEPT ![t] = "s_store"]
    /\ UNCHANGED <<cache, now, ret, lastSet, accessLog, nops, max_size,
                   lkOwner, lkArg, lkTmp, lkSets,
                   execVars, bulkVars, rangeVars, queryVars, parseVars, sweepVars, retryVars>>

\* set, lines 135-154, under self.lock: the entry is replaced and the
\* oldest entries are evicted
LkSetStore(t) ==
    /\ lkPc[t] = "s_store"
    /\ lkOwner = "none"
    /\ lkOwner' = t
    /\ LET r == CacheSet(cache, cstats, lkArg[t].key, lkArg[t].val, 0, now)
       IN  /\ cache' = r.cache
           /\ cstats' = [cstats EXCEPT !.evictions = r.stats.evictions]
    /\ lkPc' = [lkPc EXCEPT ![t] = "release"]
    /\ UNCHANGED <<now, ret, lastSet, accessLog, nops, max_size,
                   lkArg, lkTmp, lkSets, lkBare,
                   execVars, bulkVars, rangeVars, queryVars, parseVars, sweepVars, retryVars>>

\* get, lines 96-120, under self.lock
LkGet(t, k) ==
    /\ lkPc[t] = "idle"
    /\ lkOwner = "none"
    /\ lkOwner' = t
    /\ LET r == CacheGet(cache, cstats, k, now)
       IN  cache' = r.cache /\ cstats' = r.stats
    /\ lkPc' = [lkPc EXCEPT ![t] = "release"]
    /\ nops' = nops + 1
    /\ UNCHANGED <<now, ret, lastSet, accessLog, max_size,
                   lkArg, lkTmp, lkSets, lkBare,
                   execVars, bulkVars, rangeVars, queryVars, parseVars, sweepVars, retryVars>>

\* invalidate, lines 160-164, under self.lock
LkInvalidate(t, k) ==
    /\ lkPc[t] = "idle"
    /\ lkOwner = "none"
    /\ lkOwner' = t
    /\ cache' = SelectSeq(cache, LAMBDA e : e.key # k)
    /\ lkPc' = [lkPc EXCEPT ![t] = "release"]
    /\ nops' = nops + 1
    /\ UNCHANGED <<cstats, now, ret, lastSet, accessLog, max_size,
                   lkArg, lkTmp, lkSets, lkBare,
                   execVars, bulkVars, rangeVars, queryVars, parseVars, sweepVars, retryVars>>

\* cleanup_expired, lines 183-191, under self.lock
LkSweep(t) ==
    /\ lkPc[t] = "idle"
    /\ lkOwner = "none"
    /\ lkOwner' = t
    /\ cache' = CleanupExpired(cache, now)
    /\ lkPc' = [lkPc EXCEPT ![t] = "release"]
    /\ nops' = nops + 1
    /\ UNCHANGED <<cstats, now, ret, lastSet, accessLog, max_size,
                   lkArg, lkTmp, lkSets, lkBare,
                   execVars, bulkVars, rangeVars, queryVars, parseVars, sweepVars, retryVars>>

\* the end of a "with self.lock" block
LkRelease(t) ==
    /\ lkPc[t] = "release"
    /\ lkOwner = t
    /\ lkOwner' = "none"
    /\ lkPc' = [lkPc EXCEPT ![t] = "idle"]
    /\ UNCHANGED <<cacheVars, lkArg, lkTmp, lkSets, lkBare,
                   execVars, bulkVars, rangeVars, queryVars, parseVars, sweepVars, retryVars>>

LockIdle ==
    /\ lkOwner = "none"
    /\ lkPc = [t \in Threads |-> "idle"]
    /\ lkArg = [t \in Threads |-> NoArg]
    /\ lkTmp = [t \in Threads |-> 0]
    /\ lkSets = 0
    /\ lkBare = FALSE

(***************************************************************************)
(* cache_manager.py: CacheManager and its cleanup thread                   *)
(***************************************************************************)
\* The caches of CacheManager.__init__, in the order _cleanup_worker visits
\* them
SweepOrder == <<"interface_cache", "device_cache", "command_cache", "mac_cache">>

CacheNames == Range(SweepOrder)

\* The key and the value the callers of SpecSweep store
SweepKeys == {"ka"}
SweepValues == {"v1"}

EmptyCache == [cache |-> <<>>, stats |-> ZeroStats]

\* set() on one of the manager's caches; no get() is ever called
ManagerSet(n, k, v, ttlArg) ==
    /\ swSets < MaxSweepSets
    /\ swSets' = swSets + 1
    /\ LET r == CacheSet(manager[n].cache, manager[n].stats, k, v, ttlArg, now)
       IN  manager' = [manager EXCEPT ![n] = [cache |-> r.cache, stats |-> r.stats]]
    /\ UNCHANGED <<swPc, swRemoved, cacheVars, execVars, bulkVars, rangeVars,
                   queryVars, parseVars, lockVars, retryVars>>

\* _cleanup_worker, line 248: time.sleep(60) returns
CleanupWorkerWake ==
    /\ swPc = 0
    /\ swPc' = 1
    /\ UNCHANGED <<manager, swSets, swRemoved, cacheVars, execVars, bulkVars,
                   rangeVars, queryVars, parseVars, lockVars, retryVars>>

\* _cleanup_worker, lines 250-254: cleanup_expired on the i-th cache; after
\* the fourth the loop goes back to time.sleep
CleanupWorkerSweep(i) ==
    /\ swPc = i
    /\ LET n    == SweepOrder[i]
           kept == CleanupExpired(manager[n].cache, now)
       IN  /\ manager' = [manager EXCEPT ![n].cache = kept]
           /\ swRemoved' = swRemoved + (Len(manager[n].cache) - Len(kept))
    /\ swPc' = IF i = Len(SweepOrder) THEN 0 ELSE i + 1
    /\ UNCHANGED <<swSets, cacheVars, execVars, bulkVars, rangeVars, queryVars,
                   parseVars, lockVars, retryVars>>

\* The steps of the cleanup thread
CleanupWorker == CleanupWorkerWake \/ \E i \in 1..Len(SweepOrder) : CleanupWorkerSweep(i)

SweepIdle ==
    /\ manager = [n \in CacheNames |-> EmptyCache]
    /\ swPc = 0
    /\ swSets = 0
    /\ swRemoved = 0

(***************************************************************************)
(* cisco_manager.py: send_command, the text stored and the text returned   *)
(***************************************************************************)
EndsWith(s, p) == Len(s) >= Len(p) /\ SubSeq(s, Len(s) - Len(p) + 1, Len(s)) = p

\* s.split(ch, 1)[1]: what follows the first ch
AfterFirst(s, ch) ==
    LET i == CHOOSE j \in 1..Len(s) : s[j] = ch /\ \A k \in 1..(j - 1) : s[k] # ch
    IN  SubSeq(s, i + 1, Len(s))

SwitchWord == <<"S", "w", "i", "t", "c", "h">>
RouterWord == <<"R", "o", "u", "t", "e", "r">>

\* lines 246-254: one line of the output; <<>> stands for a skipped line
CleanLine(raw) ==
    LET line == Strip(raw)
    IN  IF line = <<>> \/ EndsWith(line, <<"#">>) \/ EndsWith(line, <<">">>)
        THEN <<>>
        ELSE IF StartsWith(line, SwitchWord) \/ StartsWith(line, RouterWord)
        THEN LET l1 == IF Contains(line, <<"#">>)
                       THEN Strip(AfterFirst(line, "#")) ELSE line
                 l2 == IF Contains(l1, <<">">>)
                       THEN Strip(AfterFirst(l1, ">")) ELSE l1
             IN  l2
        ELSE line

\* lines 239-256: output.strip(), the lines cleaned one by one, joined
CleanOutput(output) ==
    LET lines == Split(Strip(output), "\n")
        kept  == SelectSeq([i \in 1..Len(lines) |-> CleanLine(lines[i])],
                           LAMBDA l : l # <<>>)
    IN  Join(kept, <<"\n">>)

\* line 233: command_cache.set(cache_key, output, ttl=60)
StoredOutput(output) == output

\* The text the channel returns for each kind of answer
RawOutput(reply) ==
    IF reply = "text" THEN <<"u", "p">>
    ELSE IF reply = "prompted"
    THEN <<" ", "u", "p", "\n", "S", "w", "i", "t", "c", "h", "#">>
    ELSE <<>>

(***************************************************************************)
(* cisco_decorators.py: retry_on_failure                                   *)
(***************************************************************************)
\* What one invocation of the wrapped function does: it returns a value or
\* raises an Exception
FuncValues == {"v1", "v2"}
FuncErrors == {"e1", "e2", "e3"}

NoOut == [kind |-> "none", val |-> Null]

\* The wrapper is called: last_exception = None, the loop starts
RetryCall ==
    /\ rtPc = "ready"
    /\ rtPc' = "loop"
    /\ rtAttempt' = 0
    /\ rtLast' = "None"
    /\ UNCHANGED <<rtMax, rtLog, rtOut, cacheVars, execVars, bulkVars, rangeVars,
                   queryVars, parseVars, lockVars, sweepVars>>

\* variant: a successful invocation is followed by the next attempt
RetryInvokeAgain(r) ==
    /\ rtPc = "loop"
    /\ rtAttempt < rtMax
    /\ rtLog' = Append(rtLog, r)
    /\ rtAttempt' = rtAttempt + 1
    /\ IF r \in FuncValues
       THEN rtOut' = [kind |-> "return", val |-> r] /\ UNCHANGED rtLast
       ELSE rtLast' = r /\ UNCHANGED rtOut
    /\ UNCHANGED <<rtMax, rtPc, cacheVars, execVars, bulkVars, rangeVars,
                   queryVars, parseVars, lockVars, sweepVars>>

\* lines 42-50: one pass of "for attempt in range(max_attempts)": the
\* function is invoked; its value is returned, or its exception is kept and
\* (after the sleep, except on the last pass) the loop goes on
RetryInvoke(r) ==
    /\ rtPc = "loop"
    /\ rtAttempt < rtMax
    /\ rtLog' = Append(rtLog, r)
    /\ IF r \in FuncValues
       THEN /\ rtOut' = [kind |-> "return", val |-> r]
            /\ rtPc' = "done"
            /\ UNCHANGED <<rtAttempt, rtLast>>
       ELSE /\ rtLast' = r
            /\ rtAttempt' = rtAttempt + 1
            /\ UNCHANGED <<rtOut, rtPc>>
    /\ UNCHANGED <<rtMax, cacheVars, execVars, bulkVars, rangeVars,
                   queryVars, parseVars, lockVars, sweepVars>>

\* lines 52-53: the loop is over: raise last_exception ("raise None" is a
\* TypeError)
RetryExhausted ==
    /\ rtPc = "loop"
    /\ rtAttempt >= rtMax
    /\ rtOut' = [kind |-> "raise",
                 val |-> IF rtLast = "None" THEN "TypeError" ELSE rtLast]
    /\ rtPc' = "done"
    /\ UNCHANGED <<rtMax, rtAttempt, rtLast, rtLog, cacheVars, execVars, bulkVars,
                   rangeVars, queryVars, parseVars, lockVars, sweepVars>>

RetryIdle ==
    /\ rtMax = 0
    /\ rtPc = "ready"
    /\ rtAttempt = 0
    /\ rtLast = "None"
    /\ rtLog = <<>>
    /\ rtOut = NoOut

(***************************************************************************)
(* Specifications                                                          *)
(***************************************************************************)
CacheNext ==
    \/ \E k \in FewKeys : nops < MaxOps /\ Get(k)
    \/ \E k \in FewKeys, v \in Values, a \in TtlArgs : nops < MaxOps /\ Set(k, v, a)
    \/ \E k \in FewKeys : nops < MaxOps /\ Invalidate(k)
    \/ nops < MaxOps /\ Clear
    \/ nops < MaxOps /\ Sweep
    \/ Tick

InitCache == CacheInit /\ ExecInit /\ BulkIdle /\ RangeIdle /\ QueryIdle /\ ParseIdle /\ LockIdle /\ SweepIdle /\ RetryIdle

SpecCache == InitCache /\ [][CacheNext]_vars

\* One instance of capacity 2 under get/set/invalidate traffic on three keys,
\* every value stored with the default ttl
InitLru == InitCache /\ max_size = 2

LruNext ==
    \/ \E k \in Keys : nops < MaxLruOps /\ Get(k)
    \/ \E k \in Keys, a \in TtlArgs : nops < MaxLruOps /\ Set(k, "v1", a)
    \/ \E k \in Keys : nops < MaxLruOps /\ Invalidate(k)
    \/ nops < MaxLruOps /\ Sweep
    \/ Tick

SpecLru == InitLru /\ [][LruNext]_vars

ExecNext ==
    \/ \E t \in Threads, c \in Cmds, df \in DelayFactors, uc \in BOOLEAN :
           SendCommandCall(t, c, df, uc)
    \/ \E t \in Threads : SendCommandCacheCheck(t)
    \/ \E t \in Threads : SendCommandClean(t)
    \/ \E t \in Threads : SendCommandCleaned(t)
    \/ \E t \in Threads : SendCommandSend(t)
    \/ \E t \in Threads, r \in Replies : SendCommandReply(t, r)
    \/ \E t \in Threads : ConnectBegin(t)
    \/ \E t \in Threads, ok \in BOOLEAN : ConnectEnd(t, ok)
    \/ \E t \in Threads : Disconnect(t)

InitExec ==
    CacheInit /\ max_size = 2 /\ ExecInit /\ BulkIdle /\ RangeIdle /\ QueryIdle
    /\ ParseIdle /\ LockIdle /\ SweepIdle /\ RetryIdle

SpecExec == InitExec /\ [][ExecNext]_vars

\* A manager, connected or not, about to run one bulk call
InitBulk ==
    /\ CacheInit /\ max_size = 2 /\ RangeIdle /\ QueryIdle /\ ParseIdle /\ LockIdle /\ SweepIdle /\ RetryIdle
    /\ bIn \in PortLists
    /\ bSize \in BatchSizes
    /\ bPc = "start"
    /\ bIdx = 0
    /\ results = EmptyMap
    /\ mode = "exec"
    /\ chanOps = 0
    /\ batchLog = <<>>
    /\ cmdIdx = 0
    /\ raisedInConfig = FALSE
    /\ delivered = NoneDelivered
    /\ pOp = "none"
    /\ pRet = "none"
    /\ connection \in {"None", "handle"}
    /\ connected = (connection = "handle")
    /\ tested = connected
    /\ lockOwner = "none"
    /\ pc = [t \in Threads |-> "idle"]
    /\ call = [t \in Threads |-> NoCall]
    /\ inflight = {}
    /\ mstats = ZeroMStats
    /\ chanSends = [c \in Cmds |-> 0]
    /\ cachedDone = [c \in Cmds |-> 0]
    /\ outcome = [t \in Threads |-> "none"]
    /\ scCalls = 0
    /\ scErrors = 0
    /\ connectCalls = 0

BulkNext ==
    \/ BulkStart
    \/ BatchNext
    \/ \E r \in {"ok", "raise"}, m \in {"exec", "config"} : SendConfigSet(r, m)
    \/ ManualClean
    \/ \E r \in {"ok", "raise"}, m \in {"exec", "config"} : ManualConf(r, m)
    \/ \E r \in {"ok", "raise"} : ManualCmd(r)
    \/ \E r \in {"ok", "raise"}, m \in {"exec", "config"} : ManualEnd(r, m)
    \/ ManualFinal
    \/ \E r \in {"ok", "raise"}, m \in {"exec", "config"} : EmergencyEnd(r, m)
    \/ EmergencyExit

SpecBulk == InitBulk /\ [][BulkNext]_vars

\* A manager about to run enable_interface or disable_interface on one
\* interface: never connected, connected, or left with the session of a
\* connect() that failed its test
InitPort ==
    /\ CacheInit /\ max_size = 2 /\ RangeIdle /\ QueryIdle /\ ParseIdle /\ LockIdle /\ SweepIdle /\ RetryIdle
    /\ bIn \in {<<p>> : p \in PortPool}
    /\ bSize = 1
    /\ bPc = "start"
    /\ bIdx = 0
    /\ results = EmptyMap
    /\ mode = "exec"
    /\ chanOps = 0
    /\ batchLog = <<>>
    /\ cmdIdx = 0
    /\ raisedInConfig = FALSE
    /\ delivered = NoneDelivered
    /\ pOp \in {"enable", "disable"}
    /\ pRet = "none"
    /\ connection \in {"None", "handle"}
    /\ connected \in {c \in BOOLEAN : c => connection = "handle"}
    /\ tested = connected
    /\ lockOwner = "none"
    /\ pc = [t \in Threads |-> "idle"]
    /\ call = [t \in Threads |-> NoCall]
    /\ inflight = {}
    /\ mstats = ZeroMStats
    /\ chanSends = [c \in Cmds |-> 0]
    /\ cachedDone = [c \in Cmds |-> 0]
    /\ outcome = [t \in Threads |-> "none"]
    /\ scCalls = 0
    /\ scErrors = 0
    /\ connectCalls = 0

PortNext ==
    \/ PortCall
    \/ \E r \in {"ok", "raise"}, m \in {"exec", "config"} : SendConfigSet(r, m)
    \/ ManualClean
    \/ \E r \in {"ok", "raise"}, m \in {"exec", "config"} : ManualConf(r, m)
    \/ \E r \in {"ok", "raise"} : ManualCmd(r)
    \/ \E r \in {"ok", "raise"}, m \in {"exec", "config"} : ManualEnd(r, m)
    \/ ManualFinal
    \/ \E r \in {"ok", "raise"}, m \in {"exec", "config"} : EmergencyEnd(r, m)
    \/ EmergencyExit

SpecPort == InitPort /\ [][PortNext]_vars

InitRange ==
    /\ CacheInit /\ max_size = 2 /\ ExecInit /\ BulkIdle /\ QueryIdle /\ ParseIdle /\ LockIdle /\ SweepIdle /\ RetryIdle
    /\ rIn \in {Ascending(S) : S \in SUBSET (FirstPort..MaxPort)}
    /\ rPrefix \in Prefixes
    /\ rOut = <<>>
    /\ rPc = "ready"

SpecRange == InitRange /\ [][CompressRun]_vars

\* A manager, connected or not, about to run one interface query against a
\* device whose answers are fixed
InitQuery ==
    /\ CacheInit /\ max_size = 2 /\ BulkIdle /\ RangeIdle /\ ParseIdle /\ LockIdle /\ SweepIdle /\ RetryIdle
    /\ qUseCache \in BOOLEAN
    /\ qDev \in [1..NumStrategies -> Answers]
    /\ qLong \in BOOLEAN
    /\ qStep = 1
    /\ qDone = FALSE
    /\ qRet = NoResult
    /\ qSent = <<>>
    /\ qLog = <<>>
    /\ qCalls = 1
    /\ qPrev = NoResult
    /\ connection \in {"None", "handle"}
    /\ connected = (connection = "handle")
    /\ tested = connected
    /\ lockOwner = "none"
    /\ pc = [t \in Threads |-> "idle"]
    /\ call = [t \in Threads |-> NoCall]
    /\ inflight = {}
    /\ mstats = ZeroMStats
    /\ chanSends = [c \in Cmds |-> 0]
    /\ cachedDone = [c \in Cmds |-> 0]
    /\ outcome = [t \in Threads |-> "none"]
    /\ scCalls = 0
    /\ scErrors = 0
    /\ connectCalls = 0

QueryNext ==
    \/ \E i \in 1..NumStrategies : StrategyStep(i)
    \/ \E uc \in BOOLEAN : QueryAgain(uc)

SpecQuery == InitQuery /\ [][QueryNext]_vars

\* A status table and a raw interface line, about to be parsed
InitParse ==
    /\ CacheInit /\ max_size = 2 /\ ExecInit /\ BulkIdle /\ RangeIdle /\ QueryIdle
    /\ LockIdle /\ SweepIdle /\ RetryIdle
    /\ pHdr \in Headers
    /\ pRows \in Tables
    /\ pPad \in Paddings
    /\ pStale \in BOOLEAN
    /\ pRaw \in RawLines
    /\ pOutT = NoInterfaces
    /\ pOutF = NoInterfaces
    /\ pOutB = NoInterfaces
    /\ pPc = "ready"

ParseNext == ParseTable \/ ParseRows \/ ParseRaw

SpecParse == InitParse /\ [][ParseNext]_vars

\* Two threads calling the methods of one cache of capacity 1 or 2
LockNext ==
    \/ \E t \in Threads, k \in FewKeys, v \in Values :
           nops < MaxLockOps /\ LkSetBegin(t, k, v)
    \/ \E t \in Threads : LkSetCount(t)
    \/ \E t \in Threads : LkSetStore(t)
    \/ \E t \in Threads, k \in FewKeys : nops < MaxLockOps /\ LkGet(t, k)
    \/ \E t \in Threads, k \in FewKeys : nops < MaxLockOps /\ LkInvalidate(t, k)
    \/ \E t \in Threads : nops < MaxLockOps /\ LkSweep(t)
    \/ \E t \in Threads : LkRelease(t)
    \/ Tick

SpecLock == InitCache /\ [][LockNext]_vars

\* The manager's four caches under set() traffic only, with the cleanup
\* thread started by CacheManager.__init__ (a daemon thread that loops for
\* as long as the process lives: weak fairness on its steps)
SweepNext ==
    \/ \E n \in CacheNames, k \in SweepKeys, v \in SweepValues, a \in TtlArgs :
           ManagerSet(n, k, v, a)
    \/ CleanupWorkerWake
    \/ \E i \in 1..Len(SweepOrder) : CleanupWorkerSweep(i)
    \/ Tick

InitSweep == InitCache /\ max_size = 2

SpecSweep == InitSweep /\ [][SweepNext]_vars /\ WF_vars(CleanupWorker)

\* One call of a function wrapped by retry_on_failure(max_attempts = rtMax)
InitRetry ==
    /\ CacheInit /\ max_size = 2 /\ ExecInit /\ BulkIdle /\ RangeIdle /\ QueryIdle
    /\ ParseIdle /\ LockIdle
    /\ SweepIdle
    /\ rtMax \in 0..MaxAttempts
    /\ rtPc = "ready"
    /\ rtAttempt = 0
    /\ rtLast = "None"
    /\ rtLog = <<>>
    /\ rtOut = NoOut

RetryNext ==
    \/ RetryCall
    \/ \E r \in FuncValues \cup FuncErrors : RetryInvoke(r)
    \/ RetryExhausted

SpecRetry == InitRetry /\ [][RetryNext]_vars

(***************************************************************************)
(* Properties of the cache                                                 *)
(***************************************************************************)
\* A step that is one get() call
IsGetStep == nops' = nops + 1 /\ ret'.op = "get"

\* The ttl an entry stored with argument a carries ("ttl or self.default_ttl")
EffectiveTtl(a) == IF a = 0 THEN DefaultTtl ELSE a

\* C3 as stated: for a key stored by set(k, v, t) with t given and v
\* decodable, and not overwritten, invalidated or evicted since, get(k)
\* returns v while age < t and returns absent once age >= t, age = t included.
C3_AbsentFromAgeEqualTtl ==
    [][ (IsGetStep /\ lastSet[ret'.key].live
            /\ lastSet[ret'.key].ttlArg # 0
            /\ lastSet[ret'.key].val \notin Undecodable)
        => LET s   == lastSet[ret'.key]
               age == now - s.at
           IN  /\ age < s.ttlArg => ret'.val = s.val
               /\ age >= s.ttlArg => ret'.val = Absent ]_vars

\* C3 amended: for a key stored by set(k, v, t) and not overwritten,
\* invalidated or evicted since, with T = t (the default ttl when t is 0 or
\* None): get(k) returns v at every age <= T when v is decodable, and returns
\* absent at every age > T; and after any get(k) that returned absent the
\* cache does not hold k, so k stays absent until the next set.
C3_ValueUntilAgeExceedsTtl ==
    [][ IsGetStep
        => /\ ret'.val = Absent => ret'.key \notin CacheKeys(cache')
           /\ lastSet[ret'.key].live
              => LET s   == lastSet[ret'.key]
                     age == now - s.at
                     T   == EffectiveTtl(s.ttlArg)
                 IN  /\ (age <= T /\ s.val \notin Undecodable) => ret'.val = s.val
                     /\ age > T => ret'.val = Absent ]_vars

\* C3 witness: a get() made exactly at age = ttl has just returned the value
C3_HitAtAgeEqualTtl ==
    /\ ret.op = "get" /\ ret.at = now /\ ret.val # Absent
    /\ \E i \in 1..Len(cache) :
          /\ cache[i].key = ret.key
          /\ now - cache[i].timestamp = cache[i].ttl
          /\ cache[i].ttl = 1

\* C4: whenever a set() evicts, every evicted key was accessed (by a
\* successful get or a set) less recently than every key the cache keeps.
C4_EvictsLeastRecentlyAccessed ==
    (ret.op = "set" /\ ret.evicted # <<>>)
    => \A i \in 1..Len(ret.evicted), j \in 1..Len(cache) :
          /\ PosIn(accessLog, ret.evicted[i].key) > 0
          /\ PosIn(accessLog, ret.evicted[i].key) < PosIn(accessLog, cache[j].key)

\* C4 witness: a set() has just evicted an entry that was stored later than
\* a kept entry which a get() had touched in between
C4_TouchedEntrySurvives ==
    /\ ret.op = "set" /\ ret.evicted # <<>>
    /\ \E j \in 1..Len(cache) :
          /\ cache[j].access_count > 0
          /\ cache[j].timestamp < ret.evicted[1].timestamp

\* C5 as stated: every get() changes exactly one of hits and misses: hits
\* when it returns the value, misses when it returns absent (key missing,
\* entry expired or entry undecodable).
C5_ExactlyOneCounter ==
    [][ IsGetStep
        => \/ /\ ret'.val # Absent
              /\ cstats'.hits = cstats.hits + 1
              /\ cstats'.misses = cstats.misses
           \/ /\ ret'.val = Absent
              /\ cstats'.misses = cstats.misses + 1
              /\ cstats'.hits = cstats.hits ]_vars

(***************************************************************************)
(* Properties of the command executor                                      *)
(***************************************************************************)
\* C1 as stated: at most one thread is using the channel at any time, and
\* every thread using the channel holds the connection lock.
C1_OneCommandInFlightUnderLock ==
    /\ Cardinality(inflight) <= 1
    /\ \A t \in inflight : lockOwner = t

\* C2 as stated: a send_command(c, use_cache=True) that starts after an
\* earlier send_command(c, use_cache=True) returned text, within the ttl
\* (time does not advance here), is answered without sending c on the channel.
C2_RepeatedCallNotSent ==
    \A t \in Threads :
        (pc[t] = "sc_wait" /\ call[t].use_cache) => call[t].seenDone = 0

(***************************************************************************)
(* Properties of the bulk operations                                       *)
(***************************************************************************)
\* The batches whose configuration transaction has run
Attempted == {i \in 1..Len(batchLog) : batchLog[i] \in {"ok", "fail"}}

\* C6 as stated, for positive batch sizes: when the bulk call returns, the
\* map has an entry for exactly the port identifiers of the input.
C6_MapComplete ==
    (bPc = "done" /\ bSize >= 1) => DOMAIN results = Range(bIn)

\* C7: a bulk call with an empty list returns the empty map in one step that
\* performs no channel operation and changes neither the session mode, nor
\* the connection, nor the executor's counters, nor the cache.
C7_EmptyListTouchesNothing ==
    [][ (bPc = "start" /\ bIn = <<>> /\ bPc' # "start")
        => /\ bPc' = "done"
           /\ results' = EmptyMap
           /\ UNCHANGED <<chanOps, mode, batchLog, execVars, cacheVars>> ]_vars

\* C7 witness: a bulk call on an open session has returned for an empty list
C7_EmptyListReturned ==
    bPc = "done" /\ bIn = <<>> /\ connection = "handle"

\* C8 as stated, its safety part: when a bulk call split into several
\* batches returns, every batch has had its transaction attempted, in input order, and the
\* ports of a batch that succeeded (and are in no other batch) report true.
C8_EveryBatchAttempted ==
    (bPc = "done" /\ bSize >= 1 /\ NumBatches >= 2)
    => /\ Len(batchLog) = NumBatches
       /\ \A i \in 1..Len(batchLog) :
             /\ batchLog[i] # "skipped"
             /\ batchLog[i] = "ok"
                => \A p \in Range(Batch(i)) :
                      (\A j \in 1..NumBatches : j # i => p \notin Range(Batch(j)))
                      => (p \in DOMAIN results /\ results[p] = TRUE)

\* C9 as stated: every port of a batch whose transaction has run is in the
\* map with that batch's outcome.
C9_PortsCarryBatchOutcome ==
    \A i \in Attempted :
        \A p \in Range(Batch(i)) :
            p \in DOMAIN results /\ results[p] = (batchLog[i] = "ok")

\* C9 amended: for positive batch sizes, every port of a batch whose
\* transaction has run is in the map, and every port in the map carries the
\* outcome of the last such batch that contains it; so when no identifier
\* occurs in two batches, all ports of a batch carry that batch's outcome.
C9_PortsCarryLastBatchOutcome ==
    bSize >= 1
    => /\ \A i \in Attempted : Range(Batch(i)) \subseteq DOMAIN results
       /\ \A p \in DOMAIN results :
             LET with == {i \in Attempted : p \in Range(Batch(i))}
             IN  /\ with # {}
                 /\ \A i \in with :
                       (\A j \in with : j <= i) => results[p] = (batchLog[i] = "ok")

\* C9 witness: a bulk call over distinct names has returned after a batch of
\* two ports that succeeded and a batch that failed
C9_MixedOutcomeReturned ==
    /\ bPc = "done" /\ bSize = 2 /\ Len(bIn) = 3
    /\ \A i, j \in 1..Len(bIn) : i # j => bIn[i] # bIn[j]
    /\ batchLog = <<"ok", "fail">>

(***************************************************************************)
(* Properties of the range compressor                                      *)
(***************************************************************************)
\* The part of a range text after its last "/": "a" or "a-b"
LastPart(text) == LET parts == Split(text, "/") IN parts[Len(parts)]

\* The port numbers a range text denotes
ExpandRange(text) ==
    LET ends == Split(LastPart(text), "-")
    IN  IF Len(ends) = 1 THEN {StrToInt(ends[1])}
        ELSE StrToInt(ends[1])..StrToInt(ends[2])

\* The interface type and slot prefix of a range text
SlotOf(text) == SubSeq(text, 1, Len(text) - Len(LastPart(text)) - 1)

\* C10: for an ascending list of distinct port numbers under one slot
\* prefix, every returned range is under that prefix, every input number
\* lies in exactly one returned range, and no returned range contains a
\* number that is not in the input.
C10_RangesExpandToInput ==
    rPc = "done"
    => /\ \A i \in 1..Len(rOut) :
             /\ SlotOf(rOut[i]) = GiLower \o rPrefix
             /\ ExpandRange(rOut[i]) \subseteq Range(rIn)
       /\ \A n \in Range(rIn) :
             Cardinality({i \in 1..Len(rOut) : n \in ExpandRange(rOut[i])}) = 1

\* C10 witness: ports [1,2,3,5,6,8] under prefix 1/0 were compressed to
\* gi1/0/1-3, gi1/0/5-6, gi1/0/8
C10_ExampleCompressed ==
    /\ rPc = "done"
    /\ rIn = <<1, 2, 3, 5, 6, 8>>
    /\ rPrefix = <<"1", "/", "0">>
    /\ rOut = << <<"g", "i", "1", "/", "0", "/", "1", "-", "3">>,
                 <<"g", "i", "1", "/", "0", "/", "5", "-", "6">>,
                 <<"g", "i", "1", "/", "0", "/", "8">> >>

\* The first and last port number a range text denotes
RangeStart(text) == StrToInt(Split(LastPart(text), "-")[1])

RangeEnd(text) ==
    LET ends == Split(LastPart(text), "-") IN StrToInt(ends[Len(ends)])

\* C11: for an ascending list of distinct port numbers under one slot
\* prefix, each returned range has start <= end (a range written "a-b" has
\* a < b), and each range after the first starts above the previous range's
\* end + 1: the ranges ascend and no two of them could be merged.
C11_RangesMaximal ==
    rPc = "done"
    => /\ \A i \in 1..Len(rOut) :
             /\ RangeStart(rOut[i]) <= RangeEnd(rOut[i])
             /\ Len(Split(LastPart(rOut[i]), "-")) = 2
                => RangeStart(rOut[i]) < RangeEnd(rOut[i])
       /\ \A i \in 1..(Len(rOut) - 1) :
             RangeStart(rOut[i + 1]) > RangeEnd(rOut[i]) + 1

\* C11 witness: a list with a run, a gap of one missing port and a run
\* across the one-digit/two-digit boundary was compressed into two ranges
C11_TwoRunsCompressed ==
    /\ rPc = "done"
    /\ Len(rIn) >= 5
    /\ Len(rOut) = 2
    /\ RangeEnd(rOut[1]) + 2 = RangeStart(rOut[2])
    /\ RangeStart(rOut[1]) < RangeEnd(rOut[1])
    /\ RangeStart(rOut[2]) < 10 /\ RangeEnd(rOut[2]) >= 10

(***************************************************************************)
(* Properties of the commands generated for a batch                        *)
(***************************************************************************)
\* A name the grouping loop can split into a slot prefix and a port number
Decomposable(name) ==
    /\ StartsWith(name, GiUpper)
    /\ LET parts == Split(Remove(name, GiUpper), "/")
       IN  Len(parts) = 3 /\ IsIntStr(parts[3])

\* C12 as stated: when the commands of a batch are about to be issued, every
\* name of the batch that cannot be decomposed is an entry of its own in the
\* generated range list (as given, or with the type prefix in lower case).
C12_UndecomposablePassedThrough ==
    bPc = "cfg_set"
    => LET ranges == CreateInterfaceRanges(Batch(bIdx))
       IN  \A p \in Range(Batch(bIdx)) :
              ~Decomposable(p)
              => \E j \in 1..Len(ranges) :
                    \/ ranges[j] = p
                    \/ ranges[j] = GiLower \o Remove(p, GiUpper)

(***************************************************************************)
(* Properties of the configuration transaction                             *)
(***************************************************************************)
\* A step in which _send_config_command_safe returns to the bulk loop
ConfigReturns ==
    /\ Len(batchLog') = Len(batchLog) + 1
    /\ batchLog'[Len(batchLog')] \in {"ok", "fail"}

\* C13 as stated: a configuration operation reports failure only from its
\* cleanup, in which the exit command ("end") is issued; and when it
\* returns with success, or with failure after a channel call raised in
\* configuration mode and the cleanup's "end" was accepted, the session is
\* at the top-level prompt.
C13_IdleWhenConfigReturns ==
    [][ ConfigReturns
        => /\ batchLog'[Len(batchLog')] = "fail" => bPc \in {"e_end", "e_exit"}
           /\ batchLog'[Len(batchLog')] = "ok" => mode' = "exec"
           /\ (bPc = "e_exit" /\ raisedInConfig) => mode' = "exec" ]_vars

(***************************************************************************)
(* Properties of send_command's failures                                   *)
(***************************************************************************)
\* C14: no send_command gets past its first test while the executor is not
\* connected, and the call then ends with CiscoCommandError in a step that
\* performs no channel operation and leaves the cache, its statistics and
\* the executor's counters alone; a call whose channel exchange raises, or
\* that finds no connection handle to send on, ends with CiscoCommandError;
\* and no call ends in any other exception.
C14_CommandErrorOnly ==
    [][ \A t \in Threads :
          /\ (pc[t] = "idle" /\ pc'[t] \in {"sc_cache", "sc_clean"}) => connected
          /\ (pc[t] = "idle" /\ pc'[t] = "idle" /\ ~connected
                /\ outcome'[t] # outcome[t] /\ outcome'[t] = "CiscoCommandError")
             => UNCHANGED <<chanSends, inflight, mstats, cachedDone,
                            connection, connected, cacheVars>>
          /\ (pc[t] = "sc_wait" /\ pc'[t] = "idle" /\ call'[t].output = "raise")
             => outcome'[t] = "CiscoCommandError"
          /\ (pc[t] = "sc_send" /\ pc'[t] = "idle")
             => outcome'[t] = "CiscoCommandError"
          /\ outcome'[t] \in {"none", "running", "cached", "returned",
                              "CiscoCommandError", "True", "False"} ]_vars

\* C14 witness: one thread's command failed because the channel raised, and
\* after a disconnect another thread's first call failed at the connected test
C14_BothFailuresSeen ==
    \E t, u \in Threads :
        /\ t # u
        /\ pc[t] = "idle" /\ outcome[t] = "CiscoCommandError"
        /\ call[t].output = "raise"
        /\ ~connected /\ pc[u] = "idle" /\ call[u] = NoCall
        /\ outcome[u] = "CiscoCommandError"

(***************************************************************************)
(* Properties of the interface query                                       *)
(***************************************************************************)
\* The methods whose record count reaches the spec's minimum yield of 5
MeetThreshold == {i \in 1..NumStrategies : Yield(i) >= 5}

\* C15 as stated: when some method's record count meets the threshold of 5
\* records, the query returns the result of the first such method, and no
\* later method's command is sent.
C15_FirstAboveThresholdWins ==
    (qDone /\ MeetThreshold # {})
    => LET w == CHOOSE i \in MeetThreshold : \A j \in MeetThreshold : i <= j
       IN  /\ qRet.by = w /\ qRet.n = Yield(w)
           /\ \A k \in 1..Len(qSent) : qSent[k] <= w

\* C16 as stated: when no method meets the threshold of 5 records but some
\* method yields records, the query returns the result of a method with the
\* highest record count.
C16_BestPartialResult ==
    (qDone /\ MeetThreshold = {} /\ \E i \in 1..NumStrategies : Yield(i) > 0)
    => /\ qRet.kind = "parsed"
       /\ \A i \in 1..NumStrategies : qRet.n >= Yield(i)

\* C17: the query returns a map of at least one record; the map is the
\* single DEBUG_INFO record exactly when every method yields no record
\* (its command raised, the executor is not connected, or nothing was
\* parsed), and that record's type differs from every parsed record's.
C17_DiagnosticIffNothingParsed ==
    qDone
    => /\ qRet.kind \in {"parsed", "DEBUG_INFO"}
       /\ qRet.n >= 1
       /\ qRet.kind = "DEBUG_INFO" <=> \A i \in 1..NumStrategies : Yield(i) = 0
       /\ qRet.kind = "DEBUG_INFO" => (qRet.n = 1 /\ qRet.type = "Diagnostic")
       /\ qRet.kind = "parsed" => qRet.type = "Ethernet"

\* C17 witness: a connected executor got an answer to every command, no
\* method parsed a record, and the query has returned
C17_NothingParsedReturned ==
    /\ qDone /\ connected
    /\ \A i \in 1..NumStrategies : ~qDev[i].raises
    /\ qDev[1].n > 0 /\ ~qLong
    /\ qRet = Diagnostic

\* C18 as stated: when the command of a method raises and no method before
\* it met the threshold of 5 records, the next method is still run, and the
\* first later method that meets the threshold produces the query's result.
C18_FailedStrategySkippedOnly ==
    qDone
    => \A i \in 1..Len(qLog) :
          (qLog[i].raised /\ i < NumStrategies)
          => /\ Len(qLog) >= i + 1
             /\ \A j \in (i + 1)..NumStrategies :
                   (Yield(j) >= 5 /\ \A k \in 1..(j - 1) : Yield(k) < 5)
                   => (qRet.kind = "parsed" /\ qRet.by = j /\ qRet.n = Yield(j))

(***************************************************************************)
(* Properties of the cache: corrupt entries, size and evictions            *)
(***************************************************************************)
\* C19: a get() of a key whose stored payload cannot be decoded, made
\* before the entry expires, returns absent (the default, no exception)
\* and leaves the cache without that key and with every other entry.
C19_CorruptEntryPurged ==
    [][ (IsGetStep
           /\ ret'.key \in CacheKeys(cache)
           /\ lastSet[ret'.key].live
           /\ lastSet[ret'.key].val \in Undecodable
           /\ now - lastSet[ret'.key].at <= EffectiveTtl(lastSet[ret'.key].ttlArg))
        => /\ ret'.val = Absent
           /\ ret'.key \notin CacheKeys(cache')
           /\ CacheKeys(cache') = CacheKeys(cache) \ {ret'.key} ]_vars

\* C19 witness: the only get() so far found an undecodable, unexpired
\* entry (it was counted as a hit), returned absent and the key is gone
C19_CorruptGetReturnedAbsent ==
    /\ ret.op = "get" /\ ret.at = now /\ ret.val = Absent
    /\ lastSet[ret.key].live /\ lastSet[ret.key].val \in Undecodable
    /\ cstats.total_requests = 1 /\ cstats.hits = 1
    /\ ret.key \notin CacheKeys(cache)
    /\ cache # <<>>

\* A step that is one cache operation
IsCacheStep == nops' = nops + 1

\* C20: between cache operations the cache holds at most max_size entries;
\* the evictions counter starts at 0, a set() adds to it the number of keys
\* it pushed out of the cache, clear() resets it to 0, and no other
\* operation (get of an expired or undecodable entry, invalidate, overwrite,
\* sweep) changes it.
C20_SizeBoundAndEvictionCount ==
    /\ cstats.evictions = 0
    /\ [](Len(cache) <= max_size)
    /\ [][ IsCacheStep
           => IF ret'.op = "set"
              THEN cstats'.evictions = cstats.evictions
                     + Cardinality(CacheKeys(cache) \ CacheKeys(cache'))
              ELSE IF ret'.op = "clear"
              THEN cstats'.evictions = 0
              ELSE cstats'.evictions = cstats.evictions ]_vars

\* C20 witness: a full cache has evicted once, and since then an expired
\* entry was removed by a get() without the counter moving
C20_EvictedThenExpired ==
    /\ cstats.evictions = 1
    /\ ret.op = "get" /\ ret.val = Absent /\ ret.at = now
    /\ lastSet[ret.key].live
    /\ now - lastSet[ret.key].at > EffectiveTtl(lastSet[ret.key].ttlArg)
    /\ Len(cache) < max_size

(***************************************************************************)
(* C21: with caching enabled the cache entry is keyed by (device, command, *)
(* delay factor): two send_command calls for the same command on the same  *)
(* device with different delay_factor values never use the same cache key, *)
(* so the second cannot be answered by the entry of the first.             *)
(***************************************************************************)
C21_KeyIncludesDelayFactor ==
    \A t \in Threads, u \in Threads :
        ( /\ call[t].cache_key # NoKey /\ call[u].cache_key # NoKey
          /\ call[t].cmd = call[u].cmd
          /\ call[t].delay_factor # call[u].delay_factor )
        => call[t].cache_key # call[u].cache_key

(***************************************************************************)
(* C22: every send_command call adds exactly one to commands_executed, and *)
(* every call that ends in an error (the refused call on an unconnected    *)
(* manager included) adds exactly one to errors; a successful call leaves  *)
(* errors alone.  Stated when no call is running: commands_executed equals *)
(* the calls made, and errors equals the calls that raised plus the        *)
(* connects that failed.                                                   *)
(***************************************************************************)
FailedConnects == mstats.connection_attempts - mstats.successful_connections

C22_CountersFollowCalls ==
    (\A t \in Threads : pc[t] = "idle")
    => /\ mstats.commands_executed = scCalls
       /\ mstats.errors = scErrors + FailedConnects

(***************************************************************************)
(* C23: connect() does not retry.  Every call makes exactly one attempt    *)
(* (connection_attempts equals the number of calls), and a call whose      *)
(* attempt fails returns False at once, leaving the connected flag as it   *)
(* was when the call started: an unconnected manager stays unconnected.    *)
(***************************************************************************)
ConnectFails(t) ==
    /\ pc[t] = "co_test" /\ pc'[t] = "idle"
    /\ mstats'.successful_connections = mstats.successful_connections

C23_OneAttemptNoRetry ==
    /\ [](mstats.connection_attempts = connectCalls)
    /\ [][\A t \in Threads :
            /\ pc[t] = "co_test" => pc'[t] \in {"co_test", "idle"}
            /\ ConnectFails(t) =>
                  /\ outcome'[t] = "False"
                  /\ connected' = connected
                  /\ mstats'.connection_attempts = mstats.connection_attempts]_vars

\* C23 as stated: after a connect() that fails the manager is not connected
C23_FailedConnectNotConnected ==
    [][\A t \in Threads : ConnectFails(t) => ~connected']_vars

\* A first connect has failed on an unconnected manager
C23_FirstConnectFailed ==
    \E t \in Threads :
        /\ outcome[t] = "False" /\ pc[t] = "idle"
        /\ connectCalls = 1 /\ ~connected
        /\ mstats.connection_attempts = 1

RowNames == {pRows[i][1] : i \in 1..Len(pRows)}

RawHas(words) == Contains(Lower(pRaw), words)

RawStatus == pOutB[SplitWs(pRaw)[1]].status

KwIsUp == <<"i", "s", " ", "u", "p">>
KwProtocolUp == <<"l", "i", "n", "e", " ", "p", "r", "o", "t", "o", "c", "o", "l", " ", "i", "s", " ", "u", "p">>
KwAdminDown == <<"a", "d", "m", "i", "n", "i", "s", "t", "r", "a", "t", "i", "v", "e", "l", "y", " ", "d", "o", "w", "n">>

C26_StatusFromKeywords ==
    pPc = "done" =>
        /\ DOMAIN pOutB = {SplitWs(pRaw)[1]}
        /\ RawHas(KwIsUp) /\ RawHas(KwProtocolUp) => RawStatus = StConnected
        /\ RawHas(KwIsUp) /\ ~RawHas(KwProtocolUp) => RawStatus = StUp
        /\ RawHas(StNotconnect) /\ ~RawHas(KwIsUp) /\ ~RawHas(KwAdminDown)
           => RawStatus = StNotconnect
        /\ RawHas(KwAdminDown) /\ ~RawHas(KwIsUp) /\ ~RawHas(StNotconnect)
           => RawStatus = StDisabled

(***************************************************************************)
(* C27: every change of a cache's shared state, its entries, their order   *)
(* and the counters hits, misses, evictions, compressions and              *)
(* total_requests, is made by a thread that holds the cache's lock, so no  *)
(* counter update is lost: once no call is running, compressions equals    *)
(* the number of set() calls that compressed their value.                  *)
(***************************************************************************)
C27_CountersWrittenUnderLock ==
    /\ ~lkBare
    /\ (\A t \in Threads : lkPc[t] = "idle") => cstats.compressions = lkSets

(***************************************************************************)
(* C28: whenever a send_command call has written its command to the        *)
(* channel, that same call has drained the channel's buffer at least once  *)
(* before, and no exchange has ended on the channel between that drain and *)
(* the write.                                                              *)
(***************************************************************************)
C28_DrainedSincePreviousExchange ==
    \A t \in Threads :
        pc[t] = "sc_wait" => call[t].drains >= 1 /\ call[t].sentFresh

(***************************************************************************)
(* C29: with no get() call at all, an entry of any of the manager's caches *)
(* whose age exceeds its own ttl is eventually gone from that cache,       *)
(* because the cleanup thread keeps running; and a pass of the cleanup     *)
(* thread removes no entry whose age does not exceed its ttl.              *)
(***************************************************************************)
HasExpired(n, k) ==
    \E i \in 1..Len(manager[n].cache) :
        manager[n].cache[i].key = k /\ IsExpired(manager[n].cache[i], now)

SweepRemovesOnlyExpired ==
    \A i \in 1..Len(SweepOrder) :
        swPc = i /\ swPc' # i =>
            \A e \in Range(manager[SweepOrder[i]].cache) :
                e \notin Range(manager'[SweepOrder[i]].cache) => IsExpired(e, now)

C29_ExpiredEventuallySwept ==
    /\ \A n \in CacheNames, k \in SweepKeys :
           [](HasExpired(n, k) => <>(~HasExpired(n, k)))
    /\ [][SweepRemovesOnlyExpired]_vars

\* witness: the cleanup thread has removed an entry, and one set with another
\* ttl is still held
C29_SweptOneKeptOne ==
    /\ swRemoved >= 1
    /\ \E n \in CacheNames : manager[n].cache # <<>>

(***************************************************************************)
(* C30: a cache lookup made while another thread has a command in flight   *)
(* on the channel, for a command whose output an earlier cached call has   *)
(* returned, completes the call as a hit in that one step: it neither      *)
(* takes nor waits for connection_lock and writes nothing to the channel.  *)
(* (The cleanup thread's half of the claim is the frame of its steps in    *)
(* SpecSweep, which leave connection_lock and the channel alone.)          *)
(***************************************************************************)
LookupStep(t) == pc[t] = "sc_cache" /\ pc'[t] # "sc_cache"

C30_HitCompletesBesideInFlight ==
    [][\A t \in Threads :
          (LookupStep(t) /\ call[t].seenDone > 0 /\ inflight \ {t} # {}) =>
              /\ outcome'[t] = "cached"
              /\ pc'[t] = "idle"
              /\ lockOwner' = lockOwner
              /\ chanSends' = chanSends
              /\ inflight' = inflight]_vars

(***************************************************************************)
(* C31: a get() whose key is held by an entry older than its ttl removes   *)
(* that entry and nothing else (the size drops by one, every other entry   *)
(* keeps its place and its access count), adds one to misses and leaves    *)
(* hits as it was.                                                         *)
(***************************************************************************)
C31_ExpiredGetRemovesOnlyThatEntry ==
    [][ (IsGetStep /\ \E i \in 1..Len(cache) :
                         /\ cache[i].key = ret'.key
                         /\ now - cache[i].timestamp > cache[i].ttl)
        => /\ Len(cache') = Len(cache) - 1
           /\ cache' = SelectSeq(cache, LAMBDA e : e.key # ret'.key)
           /\ cstats'.misses = cstats.misses + 1
           /\ cstats'.hits = cstats.hits
           /\ ret'.val = Absent ]_vars

\* witness: of two entries stored, the one a get() found expired is gone
\* and the other is still held
C31_ExpiredGoneOtherKept ==
    /\ ret.op = "get" /\ ret.val = Absent
    /\ nops = 3 /\ cstats.total_requests = 1 /\ cstats.misses = 1
    /\ lastSet[ret.key].live
    /\ lastSet[ret.key].val \notin Undecodable
    /\ now - lastSet[ret.key].at > EffectiveTtl(lastSet[ret.key].ttlArg)
    /\ Len(cache) = 1 /\ cache[1].key # ret.key

(***************************************************************************)
(* C32: for every max_batch_size >= 1 the batches of a bulk call, taken in *)
(* order, make up the input list; each holds between one and               *)
(* max_batch_size interfaces; when the call returns each batch has had    *)
(* one outcome (one transaction, or none when the batch was skipped); and  *)
(* the ranges generated for a batch denote only interfaces of that batch,  *)
(* at most max_batch_size of them.                                         *)
(***************************************************************************)
RECURSIVE BatchesFrom(_)
BatchesFrom(i) == IF i > NumBatches THEN <<>> ELSE Batch(i) \o BatchesFrom(i + 1)

\* The interface names a generated range text denotes
CoveredBy(text) ==
    LET ends == Split(LastPart(text), "-")
    IN  IF \A j \in 1..Len(ends) : IsIntStr(ends[j])
        THEN {SlotOf(text) \o <<"/">> \o IntToStr(n) : n \in ExpandRange(text)}
        ELSE {text}

CoveredByAll(ranges) == UNION {CoveredBy(ranges[j]) : j \in 1..Len(ranges)}

C32_BatchesPartitionInput ==
    (bPc = "done" /\ bSize >= 1 /\ pOp = "none") =>
        /\ BatchesFrom(1) = bIn
        /\ \A i \in 1..NumBatches :
              /\ Len(Batch(i)) \in 1..bSize
              /\ LET cov == CoveredByAll(CreateInterfaceRanges(Batch(i)))
                 IN  /\ cov \subseteq {GiLower \o Remove(Batch(i)[j], GiUpper) :
                                          j \in 1..Len(Batch(i))}
                     /\ Cardinality(cov) <= bSize
        /\ Len(batchLog) = NumBatches

\* witness: three interfaces in batches of two, both transactions done, the
\* first for the range gi1/0/1-2
C32_TwoBatchesBothDone ==
    /\ bPc = "done" /\ bSize = 2 /\ Len(bIn) = 3
    /\ batchLog = <<"ok", "ok">>
    /\ CreateInterfaceRanges(Batch(1)) = <<GiLower \o <<"1", "/", "0", "/", "1", "-", "2">> >>

(***************************************************************************)
(* Properties of retry_on_failure                                          *)
(***************************************************************************)
\* The function is invoked at most max_attempts times, and never again once
\* an invocation has returned
AtMostMaxNoneAfterReturn ==
    /\ Len(rtLog) <= rtMax
    /\ \A i \in 1..Len(rtLog) - 1 : rtLog[i] \in FuncErrors

\* The wrapper returns what the last invocation returned
ReturnsFirstSuccess ==
    (rtPc = "done" /\ rtOut.kind = "return")
    => Len(rtLog) >= 1 /\ rtOut.val = rtLog[Len(rtLog)] /\ rtOut.val \in FuncValues

\* The wrapper raises only after max_attempts failing invocations, and then
\* the exception of the last of them
RaisesLastAfterAll ==
    (rtPc = "done" /\ rtOut.kind = "raise")
    => /\ Len(rtLog) = rtMax
       /\ \A i \in 1..Len(rtLog) : rtLog[i] \in FuncErrors
       /\ Len(rtLog) >= 1 /\ rtOut.val = rtLog[Len(rtLog)]

\* C33 as stated: a function wrapped with max_attempts = n is invoked at most
\* n times per call; the wrapper returns the value of the first invocation
\* that does not raise and does not invoke again; it raises only after n
\* failing invocations, and then the exception of the last one.
C33_AtMostNThenLastRaised ==
    AtMostMaxNoneAfterReturn /\ ReturnsFirstSuccess /\ RaisesLastAfterAll

\* C33 amended: the same for max_attempts >= 1; with max_attempts = 0 the
\* function is never invoked and the wrapper raises TypeError (raise None).
C33_AtMostNThenLastRaisedForPositiveN ==
    /\ AtMostMaxNoneAfterReturn
    /\ ReturnsFirstSuccess
    /\ rtMax >= 1 => RaisesLastAfterAll
    /\ (rtMax = 0 /\ rtPc = "done")
       => rtLog = <<>> /\ rtOut = [kind |-> "raise", val |-> "TypeError"]

\* witness: with max_attempts = 3, three invocations raised and the wrapper
\* raised the third exception
C33_ThirdFailureRaised ==
    /\ rtPc = "done" /\ rtMax = 3
    /\ rtLog = <<"e1", "e2", "e3">>
    /\ rtOut = [kind |-> "raise", val |-> "e3"]

(***************************************************************************)
(* C34: when a send_command(use_cache=True) call has filled the cache and  *)
(* returned, the text it handed to the command cache is the text it        *)
(* returned to its caller (the cleaned output), so that a later hit        *)
(* returns that same text.                                                 *)
(***************************************************************************)
C34_StoredTextIsReturnedText ==
    \A t \in Threads :
        (pc[t] = "idle" /\ outcome[t] = "returned" /\ call[t].use_cache
            /\ call[t].output \in WithOutput)
        => StoredOutput(RawOutput(call[t].output)) = CleanOutput(RawOutput(call[t].output))


(***************************************************************************)
(* Properties of repeated interface queries                                *)
(***************************************************************************)
\* A get_interfaces_status call has run its first method
FirstMethodRun == qStep > 1 \/ qDone

\* The command of the first method went to the channel
FirstCommandSent == qSent # <<>> /\ qSent[1] = 1

\* C35 as stated: every get_interfaces_status call made with use_cache=False
\* sends the command of its first method to the channel, whatever an
\* earlier identical call has left in the cache.
C35_UncachedQuerySendsFirst ==
    (~qUseCache /\ FirstMethodRun) => FirstCommandSent

\* C35 amended: on a connected executor, every get_interfaces_status call
\* made with use_cache=False sends the command of its first method to the
\* channel, also when an identical call was answered within the ttl before.
C35_UncachedQuerySendsFirstWhenConnected ==
    (~qUseCache /\ connected /\ FirstMethodRun) => FirstCommandSent

\* C35 witness: the first call was answered by method 1, and a second call
\* with use_cache=False, made at the same time, has sent method 1's command
C35_SecondUncachedQuerySent ==
    /\ qCalls = 2 /\ ~qUseCache /\ connected /\ qDone
    /\ qPrev.kind = "parsed" /\ qPrev.by = 1
    /\ FirstCommandSent

IsConnected == connected /\ connection # "None"

\* C36 as stated: the emergency cleanup sends no "exit" while the session
\* is at the top-level prompt, and no cleanup step leaves the session
\* logged out while is_connected() still answers True.
C36_CleanupNeverExitsAtTopLevel ==
    [][bPc = "e_exit" => (mode # "exec" /\ ~(mode' = "closed" /\ IsConnected'))]_vars


(***************************************************************************)
(* Properties of the fallback to the manual sequence                       *)
(***************************************************************************)
\* C37 as stated: within a bulk call, the device accepts the range command
\* and the shutdown / no shutdown of a batch at most once each, whether the
\* batch went through send_config_set, the manual sequence, or both.
C37_BatchDeliveredAtMostOnce ==
    pOp = "none" => \A k \in 1..NumCommands : delivered[k] <= 1


(***************************************************************************)
(* Properties of a failed connect                                          *)
(***************************************************************************)
\* C38 as stated: a connect() that returns False leaves self.connected and
\* self.connection as they were before the call; as no failed call changes
\* the handle, the session the executor holds after a failed call (if any)
\* is one that passed its connection test.
C38_FailedConnectLeavesSession ==
    [][\A t \in Threads :
          ConnectFails(t) => /\ connected' = connected
                             /\ connection' # "None" => tested']_vars


(***************************************************************************)
(* Properties of the cache counters                                        *)
(***************************************************************************)
\* C40 as stated: in every reachable state of a cache instance, the hits
\* and the misses add up to total_requests, whatever get, set, invalidate,
\* sweep and clear calls were made, gets of expired and of undecodable
\* entries included.
C40_HitsPlusMissesIsRequests ==
    cstats.hits + cstats.misses = cstats.total_requests

====
